---- MODULE Spec2Model ----
(***************************************************************************)
(* Model of the synchronisation subsystem of the FinPulse backend:         *)
(*   hktn/core/database.py            sync_locks table and its lock API    *)
(*   hktn/backend/services/sync_engine.py  start_sync, the background job  *)
(*                                    and run_full_refresh                 *)
(* Time is counted in whole seconds.  Timestamps are stored the way the    *)
(* code stores them, as fixed-width text (datetime.isoformat()), and are   *)
(* compared the way SQLite compares TEXT values, character by character.   *)
(***************************************************************************)
EXTENDS Integers, Sequences, FiniteSets, TLC

\* ---------------------------------------------------------------- bounds
MaxCalls == 2        \* invocations of start_sync / run_full_refresh
MaxConsents == 2     \* approved account consents returned for one user
MaxTime == 600       \* the clock stops advancing here
TickStep == 300      \* seconds added by one clock step of the coordinator
MaxLockTime == 122   \* the clock bound of the lock-API specification
MaxBatchBanks == 2   \* entries of req.banks in one create_multiple_consents
MaxTokenTime == 2    \* the clock bound of the token specification

\* ------------------------------------------------------ program constants
SYNC_TTL == 300      \* ttl_seconds passed by start_sync / run_full_refresh
TEST_TTL == 60       \* ttl_seconds used by the lock tests

Users == {"u1", "u2"}     \* users of the lock API
SyncUsers == {"u1"}       \* the user whose sync runs are followed
BankOrder == <<"vbank", "abank", "sbank">>
Calls == 1..MaxCalls
SyncIds == 1..MaxCalls
Ttls == {TEST_TTL, SYNC_TTL}
SleepSteps == {60, 61}

VARIABLES now, sync_locks, dbWriter, dbPending, dashboard_cache,
          multi_process, calls, lastCall,
          consentsTable, consentOp, flow, batch,
          client, callers, served, answered, loopOp,
          bank_data_cache, statusCall,
          waitOp, pageOp, normCall, job

vars == <<now, sync_locks, dbWriter, dbPending, dashboard_cache,
          multi_process, calls, lastCall,
          consentsTable, consentOp, flow, batch,
          client, callers, served, answered, loopOp,
          bank_data_cache, statusCall,
          waitOp, pageOp, normCall, job>>

\* The state of the synchronisation subsystem, except the clock.
syncVars == <<sync_locks, dbWriter, dbPending, dashboard_cache,
              multi_process, calls, lastCall>>

\* The state of the consent subsystem.
consentVars == <<consentsTable, consentOp, flow, batch>>

\* The state of one protocol client (its token, its callers) and of the
\* request loops of its operations.
tokenVars == <<client, callers, served, answered, loopOp>>

\* The bank_data_cache table and the last answer of get_sync_status.
statusVars == <<bank_data_cache, statusCall>>

\* The helpers of the protocol client followed on their own (the bounded
\* wait, a paginated retrieval, the reading of a consent response) and one
\* background run followed task by task.
helperVars == <<waitOp, pageOp, normCall, job>>

\* ------------------------------------------------------------ timestamps
\* datetime.isoformat(): a fixed-width text, most significant field first.
IsoFormat(t) ==
    <<(t \div 1000) % 10, (t \div 100) % 10, (t \div 10) % 10, t % 10>>

\* SQLite's TEXT comparison a > b (binary collation, left to right).
RECURSIVE TextGreater(_, _)
TextGreater(a, b) ==
    IF a = <<>> THEN FALSE
    ELSE IF b = <<>> THEN TRUE
    ELSE IF Head(a) # Head(b) THEN Head(a) > Head(b)
    ELSE TextGreater(Tail(a), Tail(b))

\* ------------------------------------------------------- sync_locks table
\* The same query without the expiry condition.
ActiveLocks_NoExpiry(table, user_id, t) ==
    {r \in table : r.user_id = user_id}

\* Rows matched by  WHERE user_id = ? AND expires_at > ?
ActiveLocks(table, user_id, t) ==
    {r \in table : r.user_id = user_id /\ TextGreater(r.expires_at, IsoFormat(t))}

\* get_sync_lock: the set holding the fetched row, empty for None.
GetSyncLock(table, user_id, t) == ActiveLocks(table, user_id, t)

\* is_sync_locked answering from any row of the user, expired or not.
IsSyncLocked_AnyRow(table, user_id, t) ==
    \E r \in table : r.user_id = user_id

\* is_sync_locked
IsSyncLocked(table, user_id, t) == GetSyncLock(table, user_id, t) # {}

\* The same statement without its WHERE clause.
DeleteLocks_All(table, user_id) == {}

\* DELETE FROM sync_locks WHERE user_id = ?
DeleteLocks(table, user_id) == {r \in table : r.user_id # user_id}

\* The row inserted by acquire_sync_lock.
LockRow(user_id, sync_id, t, ttl) ==
    [user_id |-> user_id, sync_id |-> sync_id,
     locked_at |-> IsoFormat(t), expires_at |-> IsoFormat(t + ttl)]

\* user_id TEXT PRIMARY KEY: an insert of a second row for a user fails.
PrimaryKeyFree(table, user_id) == \A r \in table : r.user_id # user_id

\* sync_id of the row fetchone() returns, 0 for None.
FetchSyncId(rows) == IF rows = {} THEN 0 ELSE (CHOOSE r \in rows : TRUE).sync_id

\* acquire_sync_lock without the test of the existing lock.
AcquireSyncLock_NoCheck(table, user_id, sync_id, t, ttl) ==
    [ok |-> TRUE,
     table |-> {r \in table : r.user_id # user_id}
                 \cup {[user_id |-> user_id, sync_id |-> sync_id,
                        locked_at |-> IsoFormat(t),
                        expires_at |-> IsoFormat(t + ttl)]}]

\* acquire_sync_lock run as one uninterrupted call: its result and the table
\* it leaves behind.
AcquireSyncLock(table, user_id, sync_id, t, ttl) ==
    IF ActiveLocks(table, user_id, t) # {}
    THEN [ok |-> FALSE, table |-> table]
    ELSE [ok |-> TRUE,
          table |-> DeleteLocks(table, user_id) \cup {LockRow(user_id, sync_id, t, ttl)}]

\* A release that deletes nothing.
ReleaseSyncLock_Keep(table, user_id) == table

\* release_sync_lock
ReleaseSyncLock(table, user_id) == DeleteLocks(table, user_id)

\* =============================================================== consents
\* The consent subsystem: hktn/core/database.py (the consents table),
\* hktn/core/obr_client.py (what the protocol client makes of a bank's
\* answer) and hktn/backend/services/consents.py (the orchestration).
\* Every handler runs in the event loop of one process: the code between two
\* awaits is one step.

None == "none"               \* Python None, SQL NULL, an absent JSON field

ConsentUser == "u1"
ConsentIds == {"c1"}       \* consent identifiers a bank hands out
RequestIds == {"r1"}   \* request identifiers a bank hands out
ConsentTypes == {"accounts", "products", "payments"}

\* settings.banks, and the banks whose *_API_URL the environment sets
SupportedBanks == {"vbank", "abank", "sbank"}
ConfiguredBanks == {"vbank"}
\* bank ids a request may carry: "xbank" is not in settings.banks
RequestBanks == SupportedBanks \cup {"xbank"}
\* one bank of each kind: configured, without URL, not supported
BatchBanks == {"vbank", "sbank", "xbank"}

AUTHORIZED_CONSENT_STATUSES == {"Authorized", "AuthorizedConsent", "Active", "Approved"}
FAILED_CONSENT_STATUSES == {"Rejected", "Expired", "Revoked", "Cancelled"}

\* --------------------------------------------------- the consents table
\* A row of consents.  id is the AUTOINCREMENT key, consent_id is UNIQUE,
\* created_at is CURRENT_TIMESTAMP of the insert.
ConsentRow(id, user_id, bank_id, consent_id, status, request_id, consent_type, t) ==
    [id |-> id, user_id |-> user_id, bank_id |-> bank_id,
     consent_id |-> consent_id, status |-> status, request_id |-> request_id,
     consent_type |-> consent_type, created_at |-> t]

\* COALESCE(a, b)
Coalesce(a, b) == IF a # None THEN a ELSE b

\* save_consent: INSERT ... ON CONFLICT(consent_id) DO UPDATE
SaveConsent(table, user_id, bank_id, consent_id, status, request_id, consent_type, t) ==
    IF \E r \in table : r.consent_id = consent_id
    THEN {IF r.consent_id = consent_id
          THEN [r EXCEPT !.status = status,
                         !.user_id = user_id,
                         !.bank_id = bank_id,
                         !.request_id = Coalesce(request_id, r.request_id),
                         !.consent_type = Coalesce(consent_type, r.consent_type)]
          ELSE r : r \in table}
    ELSE table \cup {ConsentRow(Cardinality(table) + 1, user_id, bank_id, consent_id,
                                status, request_id, consent_type, t)}

\* update_consent_status: UPDATE consents SET status = ? WHERE consent_id = ?
UpdateConsentStatus(table, consent_id, status) ==
    {IF r.consent_id = consent_id THEN [r EXCEPT !.status = status] ELSE r : r \in table}

\* update_consent_from_request:
\*   UPDATE consents SET consent_id = ?, status = ? WHERE request_id = ?
\* ok is FALSE when the statement breaks UNIQUE(consent_id) (sqlite3
\* IntegrityError; the statement is rolled back); updated is rowcount > 0.
UpdateConsentFromRequest(table, request_id, consent_id, status) ==
    LET hit == {r \in table : r.request_id = request_id}
        clash == \/ Cardinality(hit) > 1
                 \/ /\ hit # {}
                    /\ \E r \in table \ hit : r.consent_id = consent_id
    IN  IF clash
        THEN [ok |-> FALSE, updated |-> FALSE, table |-> table]
        ELSE [ok |-> TRUE,
              updated |-> hit # {},
              table |-> {IF r \in hit
                         THEN [r EXCEPT !.consent_id = consent_id, !.status = status]
                         ELSE r : r \in table}]

\* get_consent_by_request_id: SELECT * ... WHERE request_id = ?, fetchone()
\* (a scan of the table in rowid order); {} stands for None.
GetConsentByRequestId(table, request_id) ==
    LET hit == {r \in table : r.request_id = request_id}
    IN  {r \in hit : \A q \in hit : r.id <= q.id}

\* find_consent_by_type: the APPROVED rows of (user, bank, type),
\* ORDER BY created_at DESC LIMIT 1.  Rows inserted within the same second
\* tie, and SQL leaves the choice among them open: the result is one of the
\* returned rows; {} stands for None.
FindConsentByType(table, user_id, bank_id, consent_type) ==
    LET hit == {r \in table : /\ r.user_id = user_id
                              /\ r.bank_id = bank_id
                              /\ r.consent_type = consent_type
                              /\ r.status = "APPROVED"}
    IN  {r \in hit : \A q \in hit : r.created_at >= q.created_at}

\* ------------------------------------------------------- bank configuration
\* _require_bank / get_bank_config: "ok" or the status of the HTTPException.
GetBankConfig(bank_id, require_url) ==
    IF bank_id \notin SupportedBanks THEN "404"
    ELSE IF require_url /\ bank_id \notin ConfiguredBanks THEN "503"
    ELSE "ok"

\* The services call the protocol client with keywords that the client in
\* hktn/core/obr_client.py does not declare: bank_client() constructs it with
\* bank_id=, initiate_payment_consent() calls it with debtor_account=.  The
\* client these callers are written for (one instance per bank and session,
\* three consent requests of the same shape) accepts them; with the client
\* as it stands in obr_client.py either call ends in a TypeError.
ClientMatchesCallers == TRUE

\* Entering "async with bank_client(bank_id)": "ok" or the error raised.
BankClient(bank_id) ==
    IF GetBankConfig(bank_id, TRUE) # "ok" THEN GetBankConfig(bank_id, TRUE)
    ELSE IF ClientMatchesCallers THEN "ok" ELSE "TypeError"

\* ------------------------------------------------------ the bank's answers
\* What a bank sends back to a consent request.  http: "ok" (status < 400),
\* "error" (status >= 400 or a transport error), "broken" (any other failure
\* of the call, such as a token that cannot be fetched or a body that is not
\* JSON).  The identifiers are read from the top level or from under "data".
InitStatuses == {None, "Approved", "approved", "AwaitingAuthorization"}

InitAnswers ==
    [http : {"ok"}, consent_id : ConsentIds \cup {None},
     request_id : RequestIds \cup {None}, status : InitStatuses,
     auto_approved : BOOLEAN]
    \cup [http : {"error", "broken"}, consent_id : {None}, request_id : {None},
          status : {None}, auto_approved : {FALSE}]

RejectedAnswer == [http |-> "error", consent_id |-> None, request_id |-> None,
             status |-> None, auto_approved |-> FALSE]

\* str(value).strip().lower() on the spellings above
LowerCase(status) ==
    CASE status = "Approved" -> "approved"
      [] status = "AwaitingAuthorization" -> "awaitingauthorization"
      [] OTHER -> status

\* _AUTHORIZED_STATUS_SET
AuthorizedLower == {"authorized", "authorizedconsent", "active", "approved"}

\* ConsentInitResult, or the two ways a client call ends without one
Meta(consent_id, request_id, auto_approved) ==
    [kind |-> "meta", consent_id |-> consent_id, request_id |-> request_id,
     auto_approved |-> auto_approved]
NoMeta == [kind |-> "none", consent_id |-> None, request_id |-> None,
           auto_approved |-> FALSE]
Raised == [kind |-> "raise", consent_id |-> None, request_id |-> None,
           auto_approved |-> FALSE]

\* OBRAPIClient.initiate_consent: one request; raises on an HTTP error and
\* when the answer carries neither identifier.  auto_approved is the flag or
\* an authorized status, compared case-sensitively.
ClientInitiateConsent(ans) ==
    IF ans.http # "ok" THEN Raised
    ELSE IF ans.consent_id = None /\ ans.request_id = None THEN Raised
    ELSE Meta(ans.consent_id, ans.request_id,
              ans.auto_approved \/ ans.status \in AUTHORIZED_CONSENT_STATUSES)

\* OBRAPIClient.initiate_product_consent / initiate_payment_consent: one
\* request per entry of payloads_to_try; an answer >= 400 or without a
\* request_id moves on to the next payload, the first other answer is the
\* result; None when no payload is left.  auto_approved is the flag or an
\* authorized status, compared in lower case.
RECURSIVE ClientInitiateTypedConsent(_)
ClientInitiateTypedConsent(answers) ==
    IF answers = <<>> THEN NoMeta
    ELSE LET ans == Head(answers)
         IN  IF ans.http = "broken" THEN Raised
             ELSE IF ans.http = "error" \/ ans.request_id = None
                  THEN ClientInitiateTypedConsent(Tail(answers))
             ELSE Meta(ans.consent_id, ans.request_id,
                       ans.auto_approved \/ LowerCase(ans.status) \in AuthorizedLower)

ClientInitiateProductConsent(answers) == ClientInitiateTypedConsent(answers)

ClientInitiatePaymentConsent(answers) ==
    IF ClientMatchesCallers THEN ClientInitiateTypedConsent(answers) ELSE Raised

\* ------------------------------------------------- consent initiation
\* What a service call hands back: ret is "return" or the status code of the
\* HTTPException it raises; state is the "state" of the returned payload.
Outcome(ret, state, meta, table, called) ==
    [ret |-> ret, state |-> state, consent_id |-> meta.consent_id,
     request_id |-> meta.request_id, auto_approved |-> meta.auto_approved,
     table |-> table, called |-> called]

\* consent_identifier = consent_meta.consent_id or consent_meta.request_id
ConsentIdentifier(meta) == Coalesce(meta.consent_id, meta.request_id)

\* save_consent(...) followed by update_consent_status(consent_id, "APPROVED")
\* for an auto-approved consent that has its consent_id
PersistInitiated_AlwaysAwaiting(table, user_id, bank_id, meta, consent_type, t) ==
    SaveConsent(table, user_id, bank_id, ConsentIdentifier(meta), "AWAITING_USER",
                meta.request_id, consent_type, t)

PersistInitiated(table, user_id, bank_id, meta, consent_type, t) ==
    LET saved == SaveConsent(table, user_id, bank_id, ConsentIdentifier(meta),
                             IF meta.auto_approved THEN "APPROVED" ELSE "AWAITING_USER",
                             meta.request_id, consent_type, t)
    IN  IF meta.consent_id # None /\ meta.auto_approved
        THEN UpdateConsentStatus(saved, meta.consent_id, "APPROVED")
        ELSE saved

InitiatedState(meta) == IF meta.auto_approved THEN "approved" ELSE "pending"

\* initiate_consent: errors are raised (HTTPException 502)
InitiateConsent(table, user_id, bank_id, ans, t) ==
    IF BankClient(bank_id) # "ok"
    THEN Outcome(BankClient(bank_id), None, NoMeta, table, FALSE)
    ELSE LET meta == ClientInitiateConsent(ans)
         IN  IF meta.kind # "meta" \/ ConsentIdentifier(meta) = None
             THEN Outcome("502", None, NoMeta, table, TRUE)
             ELSE Outcome("return", InitiatedState(meta), meta,
                          PersistInitiated(table, user_id, bank_id, meta, "accounts", t),
                          TRUE)

\* initiate_product_consent: errors of the bank call are returned as a
\* payload with state "error"; errors of the configuration are raised
InitiateProductConsent_Swallow(table, user_id, bank_id, answers, t) ==
    IF BankClient(bank_id) # "ok"
    THEN Outcome(BankClient(bank_id), None, NoMeta, table, FALSE)
    ELSE LET meta == ClientInitiateProductConsent(answers)
         IN  IF meta.kind # "meta" \/ ConsentIdentifier(meta) = None
             THEN Outcome("return", "pending", NoMeta, table, TRUE)
             ELSE Outcome("return", InitiatedState(meta), meta,
                          PersistInitiated(table, user_id, bank_id, meta, "products", t),
                          TRUE)

InitiateProductConsent(table, user_id, bank_id, answers, t) ==
    IF BankClient(bank_id) # "ok"
    THEN Outcome(BankClient(bank_id), None, NoMeta, table, FALSE)
    ELSE LET meta == ClientInitiateProductConsent(answers)
         IN  IF meta.kind # "meta" \/ ConsentIdentifier(meta) = None
             THEN Outcome("return", "error", NoMeta, table, TRUE)
             ELSE Outcome("return", InitiatedState(meta), meta,
                          PersistInitiated(table, user_id, bank_id, meta, "products", t),
                          TRUE)

\* initiate_payment_consent: as for products; the debtor account is looked
\* up first (find_consent_by_type, then the accounts of that consent), which
\* reads only and whose failure is swallowed
InitiatePaymentConsent(table, user_id, bank_id, answers, t) ==
    IF BankClient(bank_id) # "ok"
    THEN Outcome(BankClient(bank_id), None, NoMeta, table, FALSE)
    ELSE LET meta == ClientInitiatePaymentConsent(answers)
         IN  IF meta.kind # "meta" \/ ConsentIdentifier(meta) = None
             THEN Outcome("return", "error", NoMeta, table, TRUE)
             ELSE Outcome("return", InitiatedState(meta), meta,
                          PersistInitiated(table, user_id, bank_id, meta, "payments", t),
                          TRUE)

\* The initiation of one consent type
Initiate(consent_type, table, user_id, bank_id, answers, t) ==
    CASE consent_type = "accounts" -> InitiateConsent(table, user_id, bank_id, Head(answers), t)
      [] consent_type = "products" -> InitiateProductConsent(table, user_id, bank_id, answers, t)
      [] consent_type = "payments" -> InitiatePaymentConsent(table, user_id, bank_id, answers, t)

\* ------------------------------------------------------ status polling
\* What a bank sends back to GET /account-consents/{request_id}: the status
\* ("unknown" when the answer has none) and, possibly, the consent_id.
PollStatuses ==
    AUTHORIZED_CONSENT_STATUSES \cup FAILED_CONSENT_STATUSES
        \cup {"AwaitingAuthorization", "unknown"}

PollAnswers ==
    [http : {"ok"}, consent_id : ConsentIds \cup {None}, status : PollStatuses]
    \cup [http : {"error"}, consent_id : {None}, status : {"unknown"}]

\* The payload poll_consent_status returns, or the HTTPException it raises
PollOutcome(ret, state, consent_id, table) ==
    [ret |-> ret, state |-> state, consent_id |-> consent_id, table |-> table]

\* consent_type of the stored row, "accounts" when there is none
ConsentKind(stored) ==
    IF stored = {} THEN "accounts"
    ELSE Coalesce((CHOOSE r \in stored : TRUE).consent_type, "accounts")

\* The branch of poll_consent_status for a failed status: the row is marked
\* only when the answer carries a consent_id
PollFailed(table, request_id, consent_id, status_value) ==
    IF consent_id = None
    THEN PollOutcome("return", "failed", None, table)
    ELSE LET upd == UpdateConsentFromRequest(table, request_id, consent_id, status_value)
         IN  IF upd.ok THEN PollOutcome("return", "failed", None, upd.table)
             ELSE PollOutcome("502", None, None, table)

\* The branch for an authorized status and a consent_id in the answer
PollAuthorized_NoEcho(table, user_id, bank_id, request_id, consent_id, stored, t) ==
    LET upd == UpdateConsentFromRequest(table, request_id, consent_id, "APPROVED")
        saved == IF upd.updated THEN upd.table
                 ELSE SaveConsent(upd.table, user_id, bank_id, consent_id, "APPROVED",
                                  request_id, ConsentKind(stored), t)
    IN  IF upd.ok
        THEN PollOutcome("return", "approved", None,
                         UpdateConsentStatus(saved, consent_id, "APPROVED"))
        ELSE PollOutcome("502", None, None, table)

PollAuthorized(table, user_id, bank_id, request_id, consent_id, stored, t) ==
    LET upd == UpdateConsentFromRequest(table, request_id, consent_id, "APPROVED")
        saved == IF upd.updated THEN upd.table
                 ELSE SaveConsent(upd.table, user_id, bank_id, consent_id, "APPROVED",
                                  request_id, ConsentKind(stored), t)
    IN  IF upd.ok
        THEN PollOutcome("return", "approved", consent_id,
                         UpdateConsentStatus(saved, consent_id, "APPROVED"))
        ELSE PollOutcome("502", None, None, table)

\* poll_consent_status
PollConsentStatus(table, user_id, bank_id, request_id, ans, t) ==
    IF request_id = None THEN PollOutcome("400", None, None, table)
    ELSE IF BankClient(bank_id) # "ok"
    THEN PollOutcome(BankClient(bank_id), None, None, table)
    ELSE IF ans.http # "ok" THEN PollOutcome("502", None, None, table)
    ELSE IF ans.status \in FAILED_CONSENT_STATUSES
    THEN PollFailed(table, request_id, ans.consent_id, ans.status)
    ELSE IF ans.consent_id = None
    THEN PollOutcome("return", "pending", None, table)
    ELSE IF ans.status \in AUTHORIZED_CONSENT_STATUSES
    THEN PollAuthorized(table, user_id, bank_id, request_id, ans.consent_id,
                        GetConsentByRequestId(table, request_id), t)
    ELSE PollOutcome("return", "pending", ans.consent_id, table)

\* mark_consent_from_callback
MarkConsentFromCallback(table, consent_id) ==
    UpdateConsentStatus(table, consent_id, "APPROVED")

\* ------------------------------------------------------------------ state
FreeCall ==
    [pc |-> "free", kind |-> "none", user_id |-> "u1", t0 |-> 0,
     consents |-> <<>>, results |-> <<>>, recorded |-> <<>>,
     ret |-> "none", invalidated |-> FALSE, exc |-> FALSE, rivals |-> {}]

NoCall == [op |-> "none", user_id |-> "u1", sync_id |-> 0, ttl |-> 0,
           at |-> 0, before |-> {}, result |-> 0]

\* ============================================================ bank token
\* hktn/core/obr_client.py: the bank token of one OBRAPIClient, its retry
\* policy and the request loops of its operations; hktn/core/database.py:
\* the bank_tokens table.

TOKEN_MARGIN == 60       \* timedelta(minutes=1) / timedelta(seconds=60)
RETRY_ATTEMPTS == 3      \* stop_after_attempt(3)

TokenCallers == {1, 2}   \* coroutines that use one client at the same time

\* A token is its exp claim and what _validate_jwt can make of it: "rsa" an
\* RSA token that verifies, "badsig" one with a bad signature, "nokid" one
\* without kid, "unknownkid" one with a kid the JWKS does not hold,
\* "garbage" a text that is no JWT, "hs" a token of a non-RSA algorithm.
NoToken == [exp |-> 0, kind |-> "none"]

\* _validate_jwt: TRUE when it returns the payload, FALSE when it raises.
\* jwks_ok: the JWKS is cached or its download succeeds.
ValidateJwt(token, jwks_ok) ==
    CASE token.kind = "garbage" -> FALSE
      [] token.kind = "hs" -> TRUE
      [] token.kind = "nokid" -> FALSE
      [] token.kind = "unknownkid" -> FALSE
      [] token.kind = "badsig" -> FALSE
      [] token.kind = "rsa" -> jwks_ok
      [] OTHER -> FALSE

\* The client as __init__ leaves it.  lock is the caller inside
\* "async with self._token_lock", 0 when it is free.
NewClient ==
    [bank_token |-> NoToken, token_expires_at |-> 0, jwks_cached |-> FALSE, lock |-> 0]

\* The test at the head of _get_bank_token: the cached token or NoToken
CachedToken(cl, t) ==
    IF cl.bank_token # NoToken /\ t < cl.token_expires_at
    THEN cl.bank_token
    ELSE NoToken

\* self._bank_token = access_token; self._token_expires_at = exp - 1 minute
StoreToken_NoMargin(cl, token) ==
    [cl EXCEPT !.bank_token = token, !.token_expires_at = token.exp]

StoreToken(cl, token) ==
    [cl EXCEPT !.bank_token = token, !.token_expires_at = token.exp - TOKEN_MARGIN]

\* What the client does when validation of a fetched token fails
RejectToken_Cache(cl, token) == StoreToken(cl, token)

RejectToken(cl, token) == cl

\* "async with self._token_lock": a caller gets in when nobody is inside
CanEnter_NoLock(cl) == TRUE

CanEnter(cl) == cl.lock = 0

\* get_cached_bank_token over the bank_tokens table: the set holding the
\* row, empty for None
GetCachedBankToken(table, bank_id, t) ==
    {r \in table : r.bank_id = bank_id /\ ~(r.expires_at <= t + TOKEN_MARGIN)}


\* ------------------------------------------------------------ retry policy
\* What the bank, or the transport, answers to one request: "200", "401",
\* "404", "500", "transport".
\* _is_retryable
IsRetryable(answer) == answer \in {"500", "transport"}

\* api_retry after the attempt-th attempt of a decorated call was answered:
\* "return", "raise" (the exception leaves the call), "retry", or
\* "retry_error" (tenacity raises RetryError, which is not retryable)
RetryOutcome(attempt, answer) ==
    IF answer = "200" THEN "return"
    ELSE IF ~IsRetryable(answer) THEN "raise"
    ELSE IF attempt >= RETRY_ATTEMPTS THEN "retry_error"
    ELSE "retry"

\* What the bank answers to POST /auth/bank-token at instant t
TokenAnswers(t) ==
    [status : {"200"}, token : [exp : {t + 30, t + 62}, kind : {"rsa", "badsig"}]]
        \cup [status : {"500"}, token : {NoToken}]

\* The operations of the client that are followed:
\*   "status"    get_consent_status_by_request_id, api_retry around the
\*               token and the request
\*   "accounts"  fetch_accounts_with_consent, the token first and api_retry
\*               around the request alone
\* (the op field of a caller)

\* One caller of the client, in one operation.
\*   outer   the attempt of the decorated call that is running
\*   inner   attempts of _fetch_token_with_retry in this _get_bank_token
\*   token_requests, requests   requests to /auth/bank-token, and to the
\*           operation's own endpoint, sent since the operation began
IdleCaller ==
    [pc |-> "idle", op |-> None, outer |-> 0, inner |-> 0, token_requests |-> 0,
     requests |-> 0, token |-> NoToken, ret |-> None]

\* ---------------------------------------------------------- request loops
\* Operations that walk through variants of one request: "product_consent",
\* "payment_consent", "single_payment", "credits".

PRODUCT_PAYLOADS == 4            \* initiate_product_consent: payloads_to_try
PAYMENT_PAYLOADS == 3            \* initiate_payment_consent: payloads_to_try
SINGLE_PAYMENT_ENDPOINTS == 3    \* initiate_single_payment: endpoints_to_try
SINGLE_PAYMENT_PAYLOADS == 3     \* initiate_single_payment: payloads_to_try
CREDIT_URLS == 2                 \* fetch_credits_with_consent: urls_to_try
CREDIT_HEADERS == 3              \* fetch_credits_with_consent: headers_variations

\* The number of requests a loop can send
Variants(kind) ==
    CASE kind = "product_consent" -> PRODUCT_PAYLOADS
      [] kind = "payment_consent" -> PAYMENT_PAYLOADS
      [] kind = "single_payment" -> SINGLE_PAYMENT_ENDPOINTS * SINGLE_PAYMENT_PAYLOADS
      [] kind = "credits" -> CREDIT_URLS * CREDIT_HEADERS

\* Answers to a request of a loop: "ok" (2xx with the identifier the
\* operation needs), "noid" (2xx without it), "404", "429", "500", "transport".
\* What a loop does with an answer: "return", "raise" or "continue"
LoopAfter(kind, answer) ==
    IF kind = "credits"
    THEN IF answer \in {"ok", "noid"} THEN "return"
         ELSE IF answer = "404" THEN "continue"
         ELSE "raise"
    ELSE IF answer = "ok" THEN "return" ELSE "continue"

\* ------------------------------------------------------------ sync status
\* bank_data_cache: PRIMARY KEY (user_id, bank_id, data_type)
NoStamp == <<>>      \* a timestamp that is None

\* save_bank_data_cache
SaveBankDataCache(table, user_id, bank_id, data_type, t) ==
    {r \in table : ~(r.user_id = user_id /\ r.bank_id = bank_id
                       /\ r.data_type = data_type)}
        \cup {[user_id |-> user_id, bank_id |-> bank_id, data_type |-> data_type,
               fetched_at |-> IsoFormat(t)]}

\* get_bank_data_cache: the set holding the row, empty for None
GetBankDataCache(table, user_id, bank_id, data_type) ==
    {r \in table : r.user_id = user_id /\ r.bank_id = bank_id
                     /\ r.data_type = data_type}

\* get_sync_status
SyncStatusResponse(status, sync_id, locked_at, expires_at, synced_at) ==
    [status |-> status, sync_id |-> sync_id, locked_at |-> locked_at,
     expires_at |-> expires_at, synced_at |-> synced_at]

SyncStatusOfLock_AnyRow(locks, user_id, t) == {r \in locks : r.user_id = user_id}

SyncStatusOfLock(locks, user_id, t) == GetSyncLock(locks, user_id, t)

GetSyncStatus(locks, cache, user_id, t) ==
    LET lock == SyncStatusOfLock(locks, user_id, t)
        cached_accounts == GetBankDataCache(cache, user_id, "vbank", "accounts")
    IN  IF lock # {}
        THEN LET l == CHOOSE r \in lock : TRUE
             IN  SyncStatusResponse("running", l.sync_id, l.locked_at, l.expires_at, NoStamp)
        ELSE SyncStatusResponse("completed", 0, NoStamp, NoStamp,
                 IF cached_accounts # {}
                 THEN (CHOOSE r \in cached_accounts : TRUE).fetched_at
                 ELSE NoStamp)

\* The last single consent operation that ended: what it was called with,
\* what the bank answered and what the operation handed back.
\*   op           "initiate", "poll", "callback"
\*   answered     the bank answered a request with a status below 400
\*   ids_seen     such an answer carried a consent_id or a request_id
\*   consent_id, request_id   initiate: the identifiers of the result;
\*                poll: the polled request_id, the answer's consent_id;
\*                callback: the consent_id of the redirect
\*   status       poll: the status the bank reported
\*   ret, state   "return" or the raised status code; the payload's state
\*   changed      the operation changed the consents table
NoConsentOp ==
    [op |-> "none", consent_type |-> None, answered |-> FALSE,
     ids_seen |-> FALSE, consent_id |-> None, request_id |-> None,
     status |-> None, auto_approved |-> FALSE, ret |-> None, state |-> None,
     changed |-> FALSE]

\* initiate_full_consent_flow between its awaits.  account, product and
\* payment hold what each initiation ended with (NoResult: not attempted,
\* Raise: it raised).
NoResult == [state |-> None, consent_id |-> None, request_id |-> None]
Raise == [state |-> "raise", consent_id |-> None, request_id |-> None]

IdleFlow ==
    [pc |-> "idle", bank_id |-> None, account |-> NoResult, product |-> NoResult,
     payment |-> NoResult, ret |-> NoResult]

\* create_multiple_consents between its awaits.
\*   requested  the number of entries of req.banks
\*   left       entries of req.banks not yet started
\*   bank_id, want   the entry being worked on and the types it asks for
\*   types      the requested types of the entry still to be handled
\*   bank_result   the status set for each consent type of the entry
\*   last       the result written for the pair handled last
\*   results    the list of bank results, kept as its length, the statuses
\*              it contains and whether every entry has a result for each
\*              type its bank asked for
NoPair == [consent_type |-> None, status |-> None, consent_id |-> None,
           reused |-> FALSE, called |-> FALSE, changed |-> FALSE]

IdleBatch ==
    [pc |-> "idle", requested |-> 0, left |-> 0, bank_id |-> None, want |-> {},
     types |-> <<>>, bank_result |-> [k \in ConsentTypes |-> None],
     last |-> NoPair,
     results |-> 0, statuses |-> {}, complete |-> TRUE,
     has_errors |-> FALSE, has_pending |-> FALSE, ret |-> None,
     overall_status |-> None]

\* The JSON body of a 2xx answer to a consent request: the fields the client
\* looks at, at the top level and under "data"; None is an absent field.
EmptyBody ==
    [consentId |-> None, consent_id |-> None, requestId |-> None,
     request_id |-> None, status |-> None, auto_approved |-> FALSE,
     data_consentId |-> None, data_consent_id |-> None,
     data_requestId |-> None, data_request_id |-> None,
     data_status |-> None, data_autoApproved |-> FALSE,
     data_auto_approved |-> FALSE]

\* a or b
Either(a, b) == IF a # None THEN a ELSE b

\* ConsentInitResult with its status, or the way the reading ends without one
InitResult(kind, consent_id, request_id, status, auto_approved) ==
    [kind |-> kind, consent_id |-> consent_id, request_id |-> request_id,
     status |-> status, auto_approved |-> auto_approved]

\* _run_sync_background before it is started.
IdleJob ==
    [pc |-> "idle", force |-> FALSE, consents |-> <<>>, products |-> {},
     tasks |-> <<>>, results |-> <<>>, recorded |-> <<>>, cache0 |-> {}]

Init ==
    /\ now = 0
    /\ sync_locks = {}
    /\ dbWriter = 0
    /\ dbPending = {}
    /\ dashboard_cache = {}
    /\ multi_process \in BOOLEAN
    /\ calls = [c \in Calls |-> FreeCall]
    /\ lastCall = NoCall
    /\ consentsTable = {}
    /\ consentOp = NoConsentOp
    /\ flow = IdleFlow
    /\ batch = IdleBatch
    /\ client = NewClient
    /\ callers = [c \in TokenCallers |-> IdleCaller]
    /\ served = [caller |-> 0, token |-> NoToken, from_cache |-> FALSE, at |-> 0]
    /\ answered = [caller |-> 0, status |-> None, token |-> NoToken]
    /\ loopOp = [pc |-> "idle", kind |-> None, sent |-> 0, last |-> None]
    /\ bank_data_cache = {}
    /\ statusCall = [user_id |-> "u1", at |-> 0,
                     response |-> SyncStatusResponse(None, 0, NoStamp, NoStamp, NoStamp)]
    /\ waitOp = [pc |-> "idle", time |-> 0, deadline |-> 0, interval |-> 0,
                 polls |-> 0, status |-> None]
    /\ pageOp = [pc |-> "idle", kind |-> None, url |-> 0, fetched |-> <<>>]
    /\ normCall = [op |-> None, body |-> EmptyBody,
                   result |-> InitResult("none", None, None, None, FALSE)]
    /\ job = IdleJob

\* ------------------------------------------------------------- scheduling
\* A call between two awaits runs synchronous code: the event loop of its
\* process runs nothing else until it reaches an await or returns.
HoldingPcs ==
    {"get_lock", "acquire", "acq_delete", "acq_insert", "acq_commit",
     "acquired", "job_invalidate", "job_except", "job_release",
     "r_invalidate", "r_release"}

Holding(c) == calls[c].pc \in HoldingPcs

\* Call c may take a step.  When the service runs as one process
\* (multi_process = FALSE) every call shares its event loop; otherwise each
\* call may be served by a process of its own.
CpuFree(c) == multi_process \/ \A d \in Calls \ {c} : ~Holding(d)

Upd(c, r) == calls' = [calls EXCEPT ![c] = r]

\* Lists of approved account consents (their bank ids) that
\* find_approved_consents may return: none, or one consent for each of the
\* first n banks.
ConsentLists ==
    {SubSeq(BankOrder, 1, n) : n \in 0..MaxConsents}

\* The lists followed where several calls run side by side: no consent, or
\* a consent for one bank.
ShortConsentLists == {<<>>, <<BankOrder[1]>>}

Pending(n) == [i \in 1..n |-> "pending"]

\* ---------------------------------------------- start_sync / run_full_refresh
\* The first statement of start_sync and of run_full_refresh:
\* if is_sync_locked(user_id).
Entered(c, kind, user_id) ==
    [calls[c] EXCEPT
        !.kind = kind, !.user_id = user_id,
        !.pc = IF IsSyncLocked(sync_locks, user_id, now)
               THEN "get_lock" ELSE "acquire"]

StartSync(c, user_id) ==
    /\ calls[c].pc = "free"
    /\ \A d \in 1..(c - 1) : calls[d].pc # "free"
    /\ CpuFree(c)
    /\ calls' = [calls EXCEPT ![c] = Entered(c, "start", user_id)]
    /\ UNCHANGED consentVars
    /\ UNCHANGED <<tokenVars, statusVars, helperVars>>
    /\ UNCHANGED <<now, sync_locks, dbWriter, dbPending, dashboard_cache,
                   multi_process, lastCall>>

RunFullRefresh(c, user_id) ==
    /\ calls[c].pc = "free"
    /\ \A d \in 1..(c - 1) : calls[d].pc # "free"
    /\ CpuFree(c)
    /\ calls' = [calls EXCEPT ![c] = Entered(c, "refresh", user_id)]
    /\ UNCHANGED consentVars
    /\ UNCHANGED <<tokenVars, statusVars, helperVars>>
    /\ UNCHANGED <<now, sync_locks, dbWriter, dbPending, dashboard_cache,
                   multi_process, lastCall>>

\* What the 409 branch does with existing_lock = get_sync_lock(user_id):
\* start_sync subscripts it (a TypeError on None), run_full_refresh tests it.
ConflictOutcome(kind, existing) ==
    IF existing = {} /\ kind = "start" THEN "500" ELSE "409"

\* existing_lock = get_sync_lock(user_id); raise HTTPException(409, ...)
ConflictGetLock(c) ==
    LET existing == GetSyncLock(sync_locks, calls[c].user_id, now) IN
    /\ calls[c].pc = "get_lock"
    /\ Upd(c, [calls[c] EXCEPT
              !.pc = "done",
              !.ret = ConflictOutcome(calls[c].kind, existing)])
    /\ UNCHANGED consentVars
    /\ UNCHANGED <<tokenVars, statusVars, helperVars>>
    /\ UNCHANGED <<now, sync_locks, dbWriter, dbPending, dashboard_cache,
                   multi_process, lastCall>>

\* acquire_sync_lock, first statement: now = utcnow(); SELECT the active lock.
AcquireSelect(c) ==
    LET existing == ActiveLocks(sync_locks, calls[c].user_id, now) IN
    /\ calls[c].pc = "acquire"
    /\ IF existing # {}
       THEN Upd(c, [calls[c] EXCEPT !.pc = "done", !.ret = "409"])
       ELSE Upd(c, [calls[c] EXCEPT
                   !.pc = "acq_delete", !.t0 = now,
                   !.rivals = {d \in Calls \ {c} :
                                 /\ calls[d].user_id = calls[c].user_id
                                 /\ calls[d].pc \in {"acq_delete", "acq_insert",
                                                     "acq_commit"}}])
    /\ UNCHANGED consentVars
    /\ UNCHANGED <<tokenVars, statusVars, helperVars>>
    /\ UNCHANGED <<now, sync_locks, dbWriter, dbPending, dashboard_cache,
                   multi_process, lastCall>>

\* DELETE FROM sync_locks WHERE user_id = ?  It opens the write transaction
\* of the connection; SQLite admits one write transaction at a time.
AcquireDelete(c) ==
    /\ calls[c].pc = "acq_delete"
    /\ dbWriter = 0
    /\ dbWriter' = c
    /\ dbPending' = DeleteLocks(sync_locks, calls[c].user_id)
    /\ Upd(c, [calls[c] EXCEPT !.pc = "acq_insert"])
    /\ UNCHANGED consentVars
    /\ UNCHANGED <<tokenVars, statusVars, helperVars>>
    /\ UNCHANGED <<now, sync_locks, dashboard_cache, multi_process, lastCall>>

\* INSERT INTO sync_locks (user_id, locked_at, sync_id, expires_at)
AcquireInsert(c) ==
    /\ calls[c].pc = "acq_insert"
    /\ dbWriter = c
    /\ IF PrimaryKeyFree(dbPending, calls[c].user_id)
       THEN /\ dbPending' = dbPending \cup
                  {LockRow(calls[c].user_id, c, calls[c].t0, SYNC_TTL)}
            /\ dbWriter' = dbWriter
            /\ Upd(c, [calls[c] EXCEPT !.pc = "acq_commit"])
       ELSE /\ dbPending' = {}
            /\ dbWriter' = 0
            /\ Upd(c, [calls[c] EXCEPT !.pc = "done", !.ret = "500"])
    /\ UNCHANGED consentVars
    /\ UNCHANGED <<tokenVars, statusVars, helperVars>>
    /\ UNCHANGED <<now, sync_locks, dashboard_cache, multi_process, lastCall>>

\* conn.commit(); return True
AcquireCommit(c) ==
    /\ calls[c].pc = "acq_commit"
    /\ dbWriter = c
    /\ sync_locks' = dbPending
    /\ dbPending' = {}
    /\ dbWriter' = 0
    /\ Upd(c, [calls[c] EXCEPT !.pc = "acquired", !.t0 = 0])
    /\ UNCHANGED consentVars
    /\ UNCHANGED <<tokenVars, statusVars, helperVars>>
    /\ UNCHANGED <<now, dashboard_cache, multi_process, lastCall>>

\* asyncio.create_task(_run_sync_background(...)); return {sync_id, queued}
LaunchJob(c) ==
    /\ calls[c].pc = "acquired"
    /\ calls[c].kind = "start"
    /\ Upd(c, [calls[c] EXCEPT !.pc = "job_start", !.ret = "queued",
                                !.rivals = {}])
    /\ UNCHANGED consentVars
    /\ UNCHANGED <<tokenVars, statusVars, helperVars>>
    /\ UNCHANGED <<now, sync_locks, dbWriter, dbPending, dashboard_cache,
                   multi_process, lastCall>>

\* ------------------------------------------------------ _sync_single_bank
\* Outcomes of one bank's job: it returns {"status": "success"} when every
\* gathered fetch returned, and re-raises the exception of a fetch that
\* failed.  Which of the two happens depends on the bank, on the cache and
\* on the force flag, none of which the coordinator looks at.
SyncSingleBankOutcomes == {"success", "raise"}

AllFinished(results) == \A i \in 1..Len(results) : results[i] # "pending"

\* ---------------------------------------------------- _run_sync_background
\* accounts_consents = find_approved_consents(...); the early return on an
\* empty list, or an exception raised by the query.
\* The early return taken without the finally block.
AfterLoad_NoFinally(consents, fatal) ==
    IF fatal THEN "job_except"
    ELSE IF consents = <<>> THEN "done"
    ELSE "job_banks"

AfterLoad(consents, fatal) ==
    IF fatal THEN "job_except"
    ELSE IF consents = <<>> THEN "job_release"
    ELSE "job_banks"

JobLoadConsents(c, consents, fatal) ==
    /\ calls[c].pc = "job_start"
    /\ CpuFree(c)
    /\ Upd(c, [calls[c] EXCEPT
              !.pc = AfterLoad(consents, fatal),
              !.consents = IF fatal THEN <<>> ELSE consents,
              !.results = IF fatal THEN <<>> ELSE Pending(Len(consents))])
    /\ UNCHANGED consentVars
    /\ UNCHANGED <<tokenVars, statusVars, helperVars>>
    /\ UNCHANGED <<now, sync_locks, dbWriter, dbPending, dashboard_cache,
                   multi_process, lastCall>>

\* One of the gathered _sync_single_bank coroutines finishes.
BankJobFinish(c, i, outcome) ==
    /\ calls[c].pc = "job_banks"
    /\ i \in 1..Len(calls[c].results)
    /\ calls[c].results[i] = "pending"
    /\ outcome \in SyncSingleBankOutcomes
    /\ CpuFree(c)
    /\ Upd(c, [calls[c] EXCEPT !.results[i] = outcome])
    /\ UNCHANGED consentVars
    /\ UNCHANGED <<tokenVars, statusVars, helperVars>>
    /\ UNCHANGED <<now, sync_locks, dbWriter, dbPending, dashboard_cache,
                   multi_process, lastCall>>

\* A loop that takes every gathered result for a success.
JobRecord_AlwaysSuccess(result) == "success"

\* What the loop over the gathered results records for one result.
JobRecord(result) == IF result = "raise" THEN "failed" ELSE "success"

\* results = await asyncio.gather(*sync_tasks, return_exceptions=True): an
\* exception of a bank job is returned as a value and is not raised.
GatherRaises(results) == FALSE

\* The job releasing right after the logging loop.
AfterGather_NoInvalidate(results, fatal) ==
    IF GatherRaises(results) \/ fatal THEN "job_except" ELSE "job_release"

\* Where the job goes after the gather and the logging loop; fatal stands
\* for an exception raised by the loop itself (add_bank_status_log).
AfterGather(results, fatal) ==
    IF GatherRaises(results) \/ fatal THEN "job_except" ELSE "job_invalidate"

\* The await of the gather and the loop that logs one bank_status_log row
\* per result (banks_synced / banks_failed).  The log table is only written.
JobLogResults(c, fatal) ==
    LET rec == [i \in 1..Len(calls[c].results) |-> JobRecord(calls[c].results[i])]
        to == AfterGather(calls[c].results, fatal) IN
    /\ calls[c].pc = "job_banks"
    /\ AllFinished(calls[c].results)
    /\ CpuFree(c)
    /\ dbWriter = 0
    /\ Upd(c, [calls[c] EXCEPT
              !.pc = to,
              !.recorded = IF to = "job_invalidate" THEN rec ELSE <<>>])
    /\ UNCHANGED consentVars
    /\ UNCHANGED <<tokenVars, statusVars, helperVars>>
    /\ UNCHANGED <<now, sync_locks, dbWriter, dbPending, dashboard_cache,
                   multi_process, lastCall>>

\* invalidate_dashboard_cache(user_id)
InvalidateDashboardCache(cache, user_id) == cache \ {user_id}

JobInvalidate(c) ==
    /\ calls[c].pc = "job_invalidate"
    /\ dbWriter = 0
    /\ dashboard_cache' = InvalidateDashboardCache(dashboard_cache, calls[c].user_id)
    /\ Upd(c, [calls[c] EXCEPT !.pc = "job_release", !.invalidated = TRUE])
    /\ UNCHANGED consentVars
    /\ UNCHANGED <<tokenVars, statusVars, helperVars>>
    /\ UNCHANGED <<now, sync_locks, dbWriter, dbPending, multi_process, lastCall>>

\* except Exception: add_bank_status_log(user_id, "system", "sync", "failed", ...)
JobExcept(c) ==
    /\ calls[c].pc = "job_except"
    /\ dbWriter = 0
    /\ Upd(c, [calls[c] EXCEPT !.pc = "job_release", !.exc = TRUE])
    /\ UNCHANGED consentVars
    /\ UNCHANGED <<tokenVars, statusVars, helperVars>>
    /\ UNCHANGED <<now, sync_locks, dbWriter, dbPending, dashboard_cache,
                   multi_process, lastCall>>

\* finally: release_sync_lock(user_id)
JobRelease(c) ==
    /\ calls[c].pc = "job_release"
    /\ dbWriter = 0
    /\ sync_locks' = ReleaseSyncLock(sync_locks, calls[c].user_id)
    /\ Upd(c, [calls[c] EXCEPT !.pc = "done", !.invalidated = FALSE,
                                !.exc = FALSE, !.consents = <<>>,
                                !.results = <<>>, !.recorded = <<>>])
    /\ UNCHANGED consentVars
    /\ UNCHANGED <<tokenVars, statusVars, helperVars>>
    /\ UNCHANGED <<now, dbWriter, dbPending, dashboard_cache, multi_process, lastCall>>

\* --------------------------------------------------------- run_full_refresh
\* accounts_consents = find_approved_consents(...); if not accounts_consents:
\* raise HTTPException(424), a statement placed before the try block.
RefreshLoadConsents(c, consents) ==
    /\ calls[c].pc = "acquired"
    /\ calls[c].kind = "refresh"
    /\ Upd(c, [calls[c] EXCEPT
              !.pc = IF consents = <<>> THEN "done" ELSE "r_banks",
              !.ret = IF consents = <<>> THEN "424" ELSE "none",
              !.consents = consents,
              !.results = Pending(Len(consents)),
              !.rivals = {}])
    /\ UNCHANGED consentVars
    /\ UNCHANGED <<tokenVars, statusVars, helperVars>>
    /\ UNCHANGED <<now, sync_locks, dbWriter, dbPending, dashboard_cache,
                   multi_process, lastCall>>

\* What the loop of run_full_refresh appends to results for one bank.
RefreshRecord(outcome) == IF outcome = "raise" THEN "error" ELSE "success"

\* try: res = await _sync_single_bank(...) / except Exception: the
\* exception of a bank never leaves the loop.
BankRaises(outcome) == FALSE

\* Index of the bank the sequential loop is waiting for.
NextBank(results) ==
    CHOOSE i \in 1..Len(results) :
        results[i] = "pending" /\ \A j \in 1..(i - 1) : results[j] # "pending"

\* res = await _sync_single_bank(...) inside try/except, one bank at a time.
RefreshBank(c, outcome) ==
    /\ calls[c].pc = "r_banks"
    /\ ~AllFinished(calls[c].results)
    /\ outcome \in SyncSingleBankOutcomes
    /\ CpuFree(c)
    /\ LET i == NextBank(calls[c].results)
           res == [calls[c].results EXCEPT ![i] = outcome] IN
       IF BankRaises(outcome)
       THEN Upd(c, [calls[c] EXCEPT !.results = res, !.pc = "r_release",
                                    !.ret = "exc", !.exc = TRUE])
       ELSE Upd(c, [calls[c] EXCEPT
              !.results = res,
              !.recorded = Append(calls[c].recorded, RefreshRecord(outcome)),
              !.pc = IF AllFinished(res) THEN "r_invalidate" ELSE "r_banks"])
    /\ UNCHANGED consentVars
    /\ UNCHANGED <<tokenVars, statusVars, helperVars>>
    /\ UNCHANGED <<now, sync_locks, dbWriter, dbPending, dashboard_cache,
                   multi_process, lastCall>>

\* invalidate_dashboard_cache(user_id), then the dashboard if asked for.
RefreshInvalidate(c, include_dashboard) ==
    /\ calls[c].pc = "r_invalidate"
    /\ dbWriter = 0
    /\ dashboard_cache' = InvalidateDashboardCache(dashboard_cache, calls[c].user_id)
    /\ Upd(c, [calls[c] EXCEPT
              !.invalidated = TRUE,
              !.pc = IF include_dashboard THEN "r_dashboard" ELSE "r_release",
              !.ret = IF include_dashboard THEN "none" ELSE "ok"])
    /\ UNCHANGED consentVars
    /\ UNCHANGED <<tokenVars, statusVars, helperVars>>
    /\ UNCHANGED <<now, sync_locks, dbWriter, dbPending, multi_process, lastCall>>

\* dashboard = await get_dashboard_metrics(user_id, force_refresh=True): it
\* stores the recomputed dashboard in the cache, or raises.
RefreshDashboard(c, ok) ==
    /\ calls[c].pc = "r_dashboard"
    /\ CpuFree(c)
    /\ dbWriter = 0
    /\ dashboard_cache' = IF ok THEN dashboard_cache \cup {calls[c].user_id}
                          ELSE dashboard_cache
    /\ Upd(c, [calls[c] EXCEPT !.pc = "r_release",
                                !.ret = IF ok THEN "ok" ELSE "exc",
                                !.exc = ~ok])
    /\ UNCHANGED consentVars
    /\ UNCHANGED <<tokenVars, statusVars, helperVars>>
    /\ UNCHANGED <<now, sync_locks, dbWriter, dbPending, multi_process, lastCall>>

\* finally: release_sync_lock(user_id)
RefreshRelease(c) ==
    /\ calls[c].pc = "r_release"
    /\ dbWriter = 0
    /\ sync_locks' = ReleaseSyncLock(sync_locks, calls[c].user_id)
    /\ Upd(c, [calls[c] EXCEPT !.pc = "done", !.invalidated = FALSE,
                                !.exc = FALSE, !.consents = <<>>,
                                !.results = <<>>, !.recorded = <<>>])
    /\ UNCHANGED consentVars
    /\ UNCHANGED <<tokenVars, statusVars, helperVars>>
    /\ UNCHANGED <<now, dbWriter, dbPending, dashboard_cache, multi_process, lastCall>>

\* get_dashboard_metrics served to a client: the dashboard is computed and
\* stored by save_dashboard_cache.
ComputeDashboard(user_id) ==
    /\ user_id \notin dashboard_cache
    /\ dbWriter = 0
    /\ dashboard_cache' = dashboard_cache \cup {user_id}
    /\ UNCHANGED consentVars
    /\ UNCHANGED <<tokenVars, statusVars, helperVars>>
    /\ UNCHANGED <<now, sync_locks, dbWriter, dbPending, multi_process,
                   calls, lastCall>>

\* The clock.
Tick ==
    /\ now + TickStep <= MaxTime
    /\ now' = now + TickStep
    /\ UNCHANGED consentVars
    /\ UNCHANGED <<tokenVars, statusVars, helperVars>>
    /\ UNCHANGED <<sync_locks, dbWriter, dbPending, dashboard_cache,
                   multi_process, calls, lastCall>>

Next ==
    \/ \E c \in Calls, u \in SyncUsers : StartSync(c, u)
    \/ \E c \in Calls, u \in SyncUsers : RunFullRefresh(c, u)
    \/ \E c \in Calls : ConflictGetLock(c)
    \/ \E c \in Calls : AcquireSelect(c)
    \/ \E c \in Calls : AcquireDelete(c)
    \/ \E c \in Calls : AcquireInsert(c)
    \/ \E c \in Calls : AcquireCommit(c)
    \/ \E c \in Calls : LaunchJob(c)
    \/ \E c \in Calls, l \in ShortConsentLists, x \in BOOLEAN :
           JobLoadConsents(c, l, x)
    \/ \E c \in Calls, i \in 1..MaxConsents, o \in {"success", "raise"} :
           BankJobFinish(c, i, o)
    \/ \E c \in Calls, x \in BOOLEAN : JobLogResults(c, x)
    \/ \E c \in Calls : JobInvalidate(c)
    \/ \E c \in Calls : JobExcept(c)
    \/ \E c \in Calls : JobRelease(c)
    \/ \E c \in Calls, l \in ShortConsentLists : RefreshLoadConsents(c, l)
    \/ \E c \in Calls, o \in {"success", "raise"} : RefreshBank(c, o)
    \/ \E c \in Calls, d \in BOOLEAN : RefreshInvalidate(c, d)
    \/ \E c \in Calls, ok \in BOOLEAN : RefreshDashboard(c, ok)
    \/ \E c \in Calls : RefreshRelease(c)
    \/ \E u \in SyncUsers : ComputeDashboard(u)
    \/ Tick

Spec == Init /\ [][Next]_vars

\* The service deployed as a single process.
InitOneProcess == Init /\ multi_process = FALSE

SpecOneProcess == InitOneProcess /\ [][Next]_vars

\* One call followed from an empty sync_locks table to its end, over every
\* list of consents.
NextRun ==
    \/ \E u \in SyncUsers : StartSync(1, u)
    \/ \E u \in SyncUsers : RunFullRefresh(1, u)
    \/ AcquireSelect(1)
    \/ AcquireDelete(1)
    \/ AcquireInsert(1)
    \/ AcquireCommit(1)
    \/ LaunchJob(1)
    \/ \E l \in ConsentLists, x \in BOOLEAN : JobLoadConsents(1, l, x)
    \/ \E i \in 1..MaxConsents, o \in {"success", "raise"} : BankJobFinish(1, i, o)
    \/ \E x \in BOOLEAN : JobLogResults(1, x)
    \/ JobInvalidate(1)
    \/ JobExcept(1)
    \/ JobRelease(1)
    \/ \E l \in ConsentLists : RefreshLoadConsents(1, l)
    \/ \E o \in {"success", "raise"} : RefreshBank(1, o)
    \/ \E d \in BOOLEAN : RefreshInvalidate(1, d)
    \/ \E ok \in BOOLEAN : RefreshDashboard(1, ok)
    \/ RefreshRelease(1)
    \/ \E u \in SyncUsers : ComputeDashboard(u)
    \/ Tick

SpecRun == InitOneProcess /\ [][NextRun]_vars

\* The event loop runs every task that is ready: a background job that can
\* take a step eventually takes one.
JobStep ==
    \/ \E l \in ConsentLists, x \in BOOLEAN : JobLoadConsents(1, l, x)
    \/ \E i \in 1..MaxConsents, o \in {"success", "raise"} : BankJobFinish(1, i, o)
    \/ \E x \in BOOLEAN : JobLogResults(1, x)
    \/ JobInvalidate(1)
    \/ JobExcept(1)
    \/ JobRelease(1)

SpecRunFair == SpecRun /\ WF_vars(JobStep)

\* ------------------------------------------------ the lock API on its own
\* The calls test_sync_locks.py makes, one call at a time.
LockAcquire(user_id, sync_id, ttl) ==
    LET res == AcquireSyncLock(sync_locks, user_id, sync_id, now, ttl) IN
    /\ sync_locks' = res.table
    /\ lastCall' = [op |-> "acquire", user_id |-> user_id, sync_id |-> sync_id,
                    ttl |-> ttl, at |-> now, before |-> sync_locks,
                    result |-> IF res.ok THEN 1 ELSE 0]
    /\ UNCHANGED consentVars
    /\ UNCHANGED <<tokenVars, statusVars, helperVars>>
    /\ UNCHANGED <<now, dbWriter, dbPending, dashboard_cache, multi_process, calls>>

LockRelease(user_id) ==
    /\ sync_locks' = ReleaseSyncLock(sync_locks, user_id)
    /\ lastCall' = [op |-> "release", user_id |-> user_id, sync_id |-> 0,
                    ttl |-> 0, at |-> now, before |-> sync_locks, result |-> 0]
    /\ UNCHANGED consentVars
    /\ UNCHANGED <<tokenVars, statusVars, helperVars>>
    /\ UNCHANGED <<now, dbWriter, dbPending, dashboard_cache, multi_process, calls>>

LockGet(user_id) ==
    /\ lastCall' = [op |-> "get", user_id |-> user_id, sync_id |-> 0,
                    ttl |-> 0, at |-> now, before |-> sync_locks,
                    result |-> FetchSyncId(GetSyncLock(sync_locks, user_id, now))]
    /\ UNCHANGED consentVars
    /\ UNCHANGED <<tokenVars, statusVars, helperVars>>
    /\ UNCHANGED <<now, sync_locks, dbWriter, dbPending, dashboard_cache,
                   multi_process, calls>>

Sleep(d) ==
    /\ now + d <= MaxLockTime
    /\ now' = now + d
    /\ UNCHANGED consentVars
    /\ UNCHANGED <<tokenVars, statusVars, helperVars>>
    /\ UNCHANGED <<sync_locks, dbWriter, dbPending, dashboard_cache,
                   multi_process, calls, lastCall>>

NextLock ==
    \/ \E u \in Users, s \in SyncIds, ttl \in Ttls : LockAcquire(u, s, ttl)
    \/ \E u \in Users : LockRelease(u)
    \/ \E u \in Users : LockGet(u)
    \/ \E d \in SleepSteps : Sleep(d)

SpecLock == InitOneProcess /\ [][NextLock]_vars

\* ======================================================= consent handlers
\* The answers of a bank to the payloads of one typed consent request: the
\* first k payloads are rejected, the next one gets the answer ans.

Attempts(n, k, ans) == [i \in 1..n |-> IF i = k + 1 THEN ans ELSE RejectedAnswer]

Payloads(consent_type) ==
    CASE consent_type = "accounts" -> 1
      [] consent_type = "products" -> PRODUCT_PAYLOADS
      [] consent_type = "payments" -> PAYMENT_PAYLOADS

AnswerSeqs(consent_type) ==
    {Attempts(Payloads(consent_type), k, ans) :
        k \in 0..(Payloads(consent_type) - 1), ans \in InitAnswers}

\* The answers the handlers below are run with: one answer for each result
\* the client can make of an answer (the identifiers it carries, whether it
\* is auto-approved, the two kinds of failure), given to the first payload.
\* The claims are checked for every answer of InitAnswers and PollAnswers
\* in every state these reach.
PlainInitAnswers == {ans \in InitAnswers : ans.status = None}

PlainAnswerSeqs(consent_type) ==
    {Attempts(Payloads(consent_type), 0, ans) : ans \in PlainInitAnswers}

PlainPollAnswers ==
    {ans \in PollAnswers :
        ans.status \in FAILED_CONSENT_STATUSES \cup {"Approved", "unknown"}}

\* What one step of the flow remembers of an initiation
FlowResult(out) ==
    [state |-> IF out.ret # "return" THEN "raise" ELSE out.state,
     consent_id |-> out.consent_id, request_id |-> out.request_id]

\* Where the flow goes after the product initiation: its failure is logged
FlowAfterProduct_Propagate(result) ==
    IF result.state \in {"raise", "error"} THEN "failed" ELSE "payment"

FlowAfterProduct(result) == "payment"

\* "return account_result"
FlowReturn(account, product, payment) == account

\* POST /api/consent/initiate: initiate_full_consent_flow up to the end of
\* the account initiation, whose failure propagates
FlowAccount(bank_id, ans) ==
    LET out == InitiateConsent(consentsTable, ConsentUser, bank_id, ans, now)
    IN  /\ flow.pc \in {"idle", "done", "failed"}
        /\ consentsTable' = out.table
        /\ flow' = IF out.ret = "return"
                   THEN [IdleFlow EXCEPT !.pc = "product", !.bank_id = bank_id,
                                         !.account = FlowResult(out)]
                   ELSE [IdleFlow EXCEPT !.pc = "failed", !.bank_id = bank_id,
                                         !.account = Raise, !.ret = Raise]
        /\ UNCHANGED <<now, consentOp, batch>>
        /\ UNCHANGED syncVars
        /\ UNCHANGED <<tokenVars, statusVars, helperVars>>

\* ... the product initiation inside its try / except
FlowProduct(answers) ==
    LET out == InitiateProductConsent(consentsTable, ConsentUser, flow.bank_id, answers, now)
        result == [FlowResult(out) EXCEPT !.consent_id = None, !.request_id = None]
    IN  /\ flow.pc = "product"
        /\ consentsTable' = out.table
        /\ flow' = IF FlowAfterProduct(result) = "payment"
                   THEN [flow EXCEPT !.pc = "payment", !.product = result]
                   ELSE [flow EXCEPT !.pc = "failed", !.product = result, !.ret = Raise]
        /\ UNCHANGED <<now, consentOp, batch>>
        /\ UNCHANGED syncVars
        /\ UNCHANGED <<tokenVars, statusVars, helperVars>>

\* ... the payment initiation inside its try / except, and the return
FlowPayment(answers) ==
    LET out == InitiatePaymentConsent(consentsTable, ConsentUser, flow.bank_id, answers, now)
        result == [FlowResult(out) EXCEPT !.consent_id = None, !.request_id = None]
    IN  /\ flow.pc = "payment"
        /\ consentsTable' = out.table
        /\ flow' = [flow EXCEPT !.pc = "done", !.payment = result,
                                !.ret = FlowReturn(flow.account, flow.product, result)]
        /\ UNCHANGED <<now, consentOp, batch>>
        /\ UNCHANGED syncVars
        /\ UNCHANGED <<tokenVars, statusVars, helperVars>>

\* Some answer of the bank had a status below 400 ...
Answered(answers) == \E i \in 1..Len(answers) : answers[i].http = "ok"

\* ... and carried an identifier
IdsSeen(answers) ==
    \E i \in 1..Len(answers) :
        /\ answers[i].http = "ok"
        /\ answers[i].consent_id # None \/ answers[i].request_id # None

\* One initiation of a consent: initiate_consent as the batch and the flow
\* call it; POST /api/consent/initiate/product and .../payment
InitiateEndpoint(consent_type, bank_id, answers) ==
    LET out == Initiate(consent_type, consentsTable, ConsentUser, bank_id, answers, now)
    IN  /\ consentsTable' = out.table
        /\ consentOp' = [NoConsentOp EXCEPT
                           !.op = "initiate", !.consent_type = consent_type,
                           !.answered = out.called /\ Answered(answers),
                           !.ids_seen = out.called /\ IdsSeen(answers),
                           !.consent_id = out.consent_id,
                           !.request_id = out.request_id,
                           !.auto_approved = out.auto_approved,
                           !.ret = out.ret, !.state = out.state,
                           !.changed = out.table # consentsTable]
        /\ UNCHANGED <<now, flow, batch>>
        /\ UNCHANGED syncVars
        /\ UNCHANGED <<tokenVars, statusVars, helperVars>>

\* GET /api/consent/status?request_id=...: poll_consent_status
GetConsentStatus(bank_id, request_id, ans) ==
    LET out == PollConsentStatus(consentsTable, ConsentUser, bank_id, request_id, ans, now)
    IN  /\ consentsTable' = out.table
        /\ consentOp' = [NoConsentOp EXCEPT
                           !.op = "poll", !.request_id = request_id,
                           !.answered = ans.http = "ok",
                           !.consent_id = ans.consent_id, !.status = ans.status,
                           !.ret = out.ret, !.state = out.state,
                           !.changed = out.table # consentsTable]
        /\ UNCHANGED <<now, flow, batch>>
        /\ UNCHANGED syncVars
        /\ UNCHANGED <<tokenVars, statusVars, helperVars>>

\* GET /api/consent/callback?consent_id=...
ConsentCallback(consent_id) ==
    /\ consentsTable' = MarkConsentFromCallback(consentsTable, consent_id)
    /\ consentOp' = [NoConsentOp EXCEPT
                       !.op = "callback", !.consent_id = consent_id, !.ret = "return",
                       !.changed = consentsTable' # consentsTable]
    /\ UNCHANGED <<now, flow, batch>>
    /\ UNCHANGED syncVars
    /\ UNCHANGED <<tokenVars, statusVars, helperVars>>

\* The consent store under single operations.
NextConsent ==
    \/ \E k \in ConsentTypes, b \in ConfiguredBanks :
         \E answers \in PlainAnswerSeqs(k) : InitiateEndpoint(k, b, answers)
    \/ \E b \in ConfiguredBanks, r \in RequestIds, ans \in PlainPollAnswers :
         GetConsentStatus(b, r, ans)
    \/ \E c \in ConsentIds \cup RequestIds : ConsentCallback(c)

SpecConsent == InitOneProcess /\ [][NextConsent]_vars

\* The full flow of one bank, one call after the other.
NextFlow ==
    \/ \E b \in RequestBanks, ans \in PlainInitAnswers : FlowAccount(b, ans)
    \/ \E answers \in PlainAnswerSeqs("products") : FlowProduct(answers)
    \/ \E answers \in PlainAnswerSeqs("payments") : FlowPayment(answers)

SpecFlow == InitOneProcess /\ [][NextFlow]_vars

\* ============================================== create_multiple_consents
TypeOrder == <<"accounts", "products", "payments">>

\* The requested types of an entry, in the order the code handles them
RECURSIVE TypesOf(_, _)
TypesOf(want, order) ==
    IF order = <<>> THEN <<>>
    ELSE IF Head(order) \in want THEN <<Head(order)>> \o TypesOf(want, Tail(order))
    ELSE TypesOf(want, Tail(order))

\* What handling one (bank, type) pair gives: the status written into the
\* bank's result, the flags it raises, the table afterwards.
PairOutcome(status, consent_id, reused, called, table, errors, pending) ==
    [status |-> status, consent_id |-> consent_id, reused |-> reused,
     called |-> called, table |-> table, errors |-> errors, pending |-> pending]

\* The pair's branch for a consent that is initiated afresh
FreshPair(out) ==
    IF out.ret # "return" \/ out.state = "error"
    THEN PairOutcome("error", None, FALSE, out.called, out.table, TRUE, FALSE)
    ELSE IF out.state = "approved"
    THEN PairOutcome("approved", out.consent_id, FALSE, out.called, out.table, FALSE, FALSE)
    ELSE IF out.state = "pending"
    THEN PairOutcome("pending", out.consent_id, FALSE, out.called, out.table, FALSE, TRUE)
    ELSE PairOutcome("creating", out.consent_id, FALSE, out.called, out.table, FALSE, TRUE)

\* One pair of create_multiple_consents: reuse the APPROVED consent that
\* find_consent_by_type returns, otherwise initiate one.  A set, because
\* find_consent_by_type may return any of the rows that tie.
PairOutcomes_NeverReuse(consent_type, table, user_id, bank_id, answers, t) ==
    {FreshPair(Initiate(consent_type, table, user_id, bank_id, answers, t))}

PairOutcomes(consent_type, table, user_id, bank_id, answers, t) ==
    LET existing == FindConsentByType(table, user_id, bank_id, consent_type)
    IN  IF existing # {}
        THEN {PairOutcome("approved", e.consent_id, TRUE, FALSE, table, FALSE, FALSE)
                : e \in existing}
        ELSE {FreshPair(Initiate(consent_type, table, user_id, bank_id, answers, t))}

\* "Determine overall status"
OverallStatus_ErrorFirst(has_errors, has_pending) ==
    IF has_errors THEN "error"
    ELSE IF has_pending THEN "in_progress"
    ELSE "completed"

OverallStatus(has_errors, has_pending) ==
    IF has_errors /\ has_pending THEN "partial"
    ELSE IF has_errors THEN "error"
    ELSE IF has_pending THEN "in_progress"
    ELSE "completed"

\* What the loop does with an entry whose bank get_bank_config rejects: the
\* HTTPException leaves create_multiple_consents
BankLookup(bank_id) == GetBankConfig(bank_id, FALSE)

\* POST /api/onboarding/consents with n entries in req.banks
BatchStart(n) ==
    /\ batch.pc \in {"idle", "done", "aborted"}
    /\ batch' = IF n = 0
                THEN [IdleBatch EXCEPT !.pc = "done", !.ret = "return",
                                       !.overall_status = OverallStatus(FALSE, FALSE)]
                ELSE [IdleBatch EXCEPT !.pc = "bank", !.requested = n, !.left = n]
    /\ UNCHANGED <<now, consentsTable, consentOp, flow>>
    /\ UNCHANGED syncVars
    /\ UNCHANGED <<tokenVars, statusVars, helperVars>>

\* The head of the loop body for the next entry: the bank's configuration
BatchBank(bank_id, want) ==
    /\ batch.pc = "bank"
    /\ batch' = IF BankLookup(bank_id) # "ok"
                THEN [batch EXCEPT !.pc = "aborted", !.ret = BankLookup(bank_id),
                                   !.bank_id = bank_id, !.want = want]
                ELSE [batch EXCEPT !.pc = "pair", !.bank_id = bank_id, !.want = want,
                                   !.types = TypesOf(want, TypeOrder),
                                   !.bank_result = [k \in ConsentTypes |-> None]]
    /\ UNCHANGED <<now, consentsTable, consentOp, flow>>
    /\ UNCHANGED syncVars
    /\ UNCHANGED <<tokenVars, statusVars, helperVars>>

\* One requested consent type of the entry
BatchPair(consent_type, answers) ==
    /\ batch.pc = "pair"
    /\ batch.types # <<>>
    /\ consent_type = Head(batch.types)
    /\ \E o \in PairOutcomes(Head(batch.types), consentsTable, ConsentUser,
                             batch.bank_id, answers, now) :
         /\ consentsTable' = o.table
         /\ batch' = [batch EXCEPT
                        !.types = Tail(batch.types),
                        !.bank_result[Head(batch.types)] = o.status,
                        !.last = [consent_type |-> Head(batch.types),
                                  status |-> o.status, consent_id |-> o.consent_id,
                                  reused |-> o.reused, called |-> o.called,
                                  changed |-> o.table # consentsTable],
                        !.has_errors = batch.has_errors \/ o.errors,
                        !.has_pending = batch.has_pending \/ o.pending]
    /\ UNCHANGED <<now, consentOp, flow>>
    /\ UNCHANGED syncVars
    /\ UNCHANGED <<tokenVars, statusVars, helperVars>>

\* results.append(bank_result), then the next entry or the return
BatchAppend ==
    /\ batch.pc = "pair"
    /\ batch.types = <<>>
    /\ batch' = [batch EXCEPT
                   !.results = batch.results + 1,
                   !.statuses = batch.statuses
                                  \cup {batch.bank_result[k] : k \in batch.want},
                   !.complete = /\ batch.complete
                                /\ \A k \in batch.want : batch.bank_result[k] # None,
                   !.left = batch.left - 1,
                   !.last = NoPair,
                   !.pc = IF batch.left = 1 THEN "done" ELSE "bank",
                   !.ret = IF batch.left = 1 THEN "return" ELSE None,
                   !.overall_status =
                       IF batch.left = 1
                       THEN OverallStatus(batch.has_errors, batch.has_pending)
                       ELSE None]
    /\ UNCHANGED <<now, consentsTable, consentOp, flow>>
    /\ UNCHANGED syncVars
    /\ UNCHANGED <<tokenVars, statusVars, helperVars>>

\* The batch, one call after the other.
NextBatch ==
    \/ \E n \in 0..MaxBatchBanks : BatchStart(n)
    \/ \E b \in BatchBanks, want \in SUBSET ConsentTypes : BatchBank(b, want)
    \/ \E k \in ConsentTypes :
         \E answers \in PlainAnswerSeqs(k) : BatchPair(k, answers)
    \/ BatchAppend

SpecBatch == InitOneProcess /\ [][NextBatch]_vars

\* ========================================================= client handlers
\* One OBRAPIClient used by several coroutines.  Each caller runs
\* get_consent_status_by_request_id: api_retry around _get_bank_token and
\* the GET of the consent.
\* The operation is called
OpStart(c, op) ==
    /\ callers[c].pc \in {"idle", "done"}
    /\ callers' = [callers EXCEPT
                     ![c] = [IdleCaller EXCEPT !.pc = "enter", !.op = op, !.outer = 1]]
    /\ UNCHANGED <<now, client, served, answered, loopOp>>
    /\ UNCHANGED <<syncVars, consentVars, statusVars, helperVars>>

\* _get_bank_token up to its first await: the lock and the cached token
TokenEnter(c) ==
    /\ callers[c].pc = "enter"
    /\ CanEnter(client)
    /\ IF CachedToken(client, now) # NoToken
       THEN /\ callers' = [callers EXCEPT
                             ![c].pc = "request",
                             ![c].token = CachedToken(client, now)]
            /\ served' = [caller |-> c, token |-> CachedToken(client, now),
                          from_cache |-> TRUE, at |-> now]
            /\ UNCHANGED client
       ELSE /\ callers' = [callers EXCEPT ![c].pc = "fetch", ![c].inner = 0]
            /\ client' = [client EXCEPT !.lock = c]
            /\ UNCHANGED served
    /\ UNCHANGED <<now, answered, loopOp>>
    /\ UNCHANGED <<syncVars, consentVars, statusVars, helperVars>>

\* One attempt of _fetch_token_with_retry and what api_retry makes of it
TokenFetch(c, answer) ==
    /\ callers[c].pc = "fetch"
    /\ LET r == callers[c]
           outcome == RetryOutcome(r.inner + 1, answer.status)
           sent == [r EXCEPT !.inner = r.inner + 1,
                             !.token_requests = r.token_requests + 1]
       IN  /\ callers' = [callers EXCEPT ![c] =
                CASE outcome = "return" ->
                       [sent EXCEPT !.pc = "validate", !.token = answer.token]
                  [] outcome = "retry" -> sent
                  [] OTHER -> [sent EXCEPT !.pc = "done", !.ret = outcome]]
           /\ client' = IF outcome \in {"raise", "retry_error"}
                        THEN [client EXCEPT !.lock = 0]
                        ELSE client
    /\ UNCHANGED <<now, served, answered, loopOp>>
    /\ UNCHANGED <<syncVars, consentVars, statusVars, helperVars>>

\* _validate_jwt of the fetched token, then the rest of _get_bank_token
TokenValidate(c, jwks_ok) ==
    /\ callers[c].pc = "validate"
    /\ (client.jwks_cached => jwks_ok)
    /\ LET r == callers[c]
           uses_jwks == r.token.kind \in {"rsa", "badsig", "unknownkid"}
           keys == client.jwks_cached \/ (uses_jwks /\ jwks_ok)
       IN  IF ValidateJwt(r.token, jwks_ok)
           THEN /\ client' = [StoreToken(client, r.token) EXCEPT
                                !.lock = 0, !.jwks_cached = keys]
                /\ callers' = [callers EXCEPT ![c].pc = "request"]
                /\ served' = [caller |-> c, token |-> r.token,
                              from_cache |-> FALSE, at |-> now]
           ELSE /\ client' = [RejectToken(client, r.token) EXCEPT
                                !.lock = 0, !.jwks_cached = keys]
                /\ callers' = [callers EXCEPT ![c].pc = "done",
                                              ![c].ret = "raise",
                                              ![c].token = NoToken]
                /\ UNCHANGED served
    /\ UNCHANGED <<now, answered, loopOp>>
    /\ UNCHANGED <<syncVars, consentVars, statusVars, helperVars>>

\* The GET of the operation with the token in its headers, and what
\* api_retry makes of the answer: the whole operation runs again
\* ("status"), or the request alone ("accounts")
Request(c, answer) ==
    /\ callers[c].pc = "request"
    /\ LET r == callers[c]
           outcome == RetryOutcome(r.outer, answer)
           sent == [r EXCEPT !.requests = r.requests + 1]
       IN  callers' = [callers EXCEPT ![c] =
             CASE outcome = "retry" ->
                    [sent EXCEPT !.pc = IF r.op = "status" THEN "enter"
                                        ELSE "request",
                                 !.outer = r.outer + 1]
               [] OTHER -> [sent EXCEPT !.pc = "done", !.ret = outcome]]
    /\ answered' = [caller |-> c, status |-> answer, token |-> callers[c].token]
    /\ UNCHANGED <<now, client, served, loopOp>>
    /\ UNCHANGED <<syncVars, consentVars, statusVars, helperVars>>

\* A second passes (wait_exponential waits at least one)
TokenTick ==
    /\ now < MaxTokenTime
    /\ now' = now + 1
    /\ UNCHANGED <<syncVars, consentVars, tokenVars, statusVars, helperVars>>

NextToken ==
    \/ \E c \in TokenCallers : OpStart(c, "accounts")
    \/ \E c \in TokenCallers : TokenEnter(c)
    \/ \E c \in TokenCallers : \E answer \in TokenAnswers(now) : TokenFetch(c, answer)
    \/ \E c \in TokenCallers, jwks_ok \in BOOLEAN : TokenValidate(c, jwks_ok)
    \/ \E c \in TokenCallers, answer \in {"200", "401"} : Request(c, answer)
    \/ TokenTick

SpecToken == InitOneProcess /\ [][NextToken]_vars

\* One caller and every answer of the bank
NextRetry ==
    \/ \E op \in {"status", "accounts"} : OpStart(1, op)
    \/ TokenEnter(1)
    \/ \E answer \in TokenAnswers(now) : TokenFetch(1, answer)
    \/ \E jwks_ok \in BOOLEAN : TokenValidate(1, jwks_ok)
    \/ \E answer \in {"200", "401", "404", "500", "transport"} : Request(1, answer)
    \/ TokenTick

SpecRetry == InitOneProcess /\ [][NextRetry]_vars

\* ------------------------------------------------------------ request loops
\* An operation with a loop over request variants is called
LoopStart(kind) ==
    /\ loopOp.pc # "loop"
    /\ loopOp' = [pc |-> "loop", kind |-> kind, sent |-> 0, last |-> None]
    /\ UNCHANGED <<now, client, callers, served, answered>>
    /\ UNCHANGED <<syncVars, consentVars, statusVars, helperVars>>

\* The next variant is sent and answered
LoopSend(answer) ==
    /\ loopOp.pc = "loop"
    /\ LET after == LoopAfter(loopOp.kind, answer)
       IN  loopOp' = [loopOp EXCEPT
                        !.sent = loopOp.sent + 1,
                        !.last = answer,
                        !.pc = IF after = "continue"
                               THEN IF loopOp.sent + 1 < Variants(loopOp.kind)
                                    THEN "loop" ELSE "exhausted"
                               ELSE after]
    /\ UNCHANGED <<now, client, callers, served, answered>>
    /\ UNCHANGED <<syncVars, consentVars, statusVars, helperVars>>

NextLoop ==
    \/ \E kind \in {"product_consent", "payment_consent", "single_payment",
                     "credits"} : LoopStart(kind)
    \/ \E answer \in {"ok", "noid", "404", "429", "500", "transport"} :
         LoopSend(answer)

SpecLoop == InitOneProcess /\ [][NextLoop]_vars

\* -------------------------------------------------------------- sync status
\* A fetch stores a snapshot (save_bank_data_cache)
CacheSave(user_id, bank_id, data_type) ==
    /\ bank_data_cache' = SaveBankDataCache(bank_data_cache, user_id, bank_id,
                                            data_type, now)
    /\ UNCHANGED <<now, statusCall>>
    /\ UNCHANGED <<syncVars, consentVars, tokenVars, helperVars>>

\* GET /api/sync/status
GetSyncStatusEndpoint(user_id) ==
    /\ statusCall' = [user_id |-> user_id, at |-> now,
                      response |-> GetSyncStatus(sync_locks, bank_data_cache,
                                                 user_id, now)]
    /\ UNCHANGED <<now, bank_data_cache>>
    /\ UNCHANGED <<syncVars, consentVars, tokenVars, helperVars>>

NextStatus ==
    \/ \E u \in SyncUsers, s \in SyncIds : LockAcquire(u, s, TEST_TTL)
    \/ \E u \in SyncUsers : LockRelease(u)
    \/ \E d \in SleepSteps : Sleep(d)
    \/ \E u \in SyncUsers :
         \E key \in {<<"vbank", "accounts">>, <<"abank", "accounts">>,
                      <<"vbank", "transactions">>} : CacheSave(u, key[1], key[2])
    \/ \E u \in SyncUsers : GetSyncStatusEndpoint(u)

SpecStatus == InitOneProcess /\ [][NextStatus]_vars

\* --------------------------------------- wait_for_consent_authorization
\* The helper between its awaits.
\*   time       loop.time() counted from the call, in poll intervals' unit
\*   deadline   loop.time() at the call + timeout_seconds
\*   interval   poll_interval_seconds
\*   polls      completed calls of get_consent_details
\*   status     the status read from the last poll
MaxTimeout == 2

\* status = data_section.get("status") or consent_payload.get("status")
\*          or "unknown"
PolledStatus(payload) ==
    IF payload.data_status # None THEN payload.data_status
    ELSE IF payload.status # None THEN payload.status
    ELSE "unknown"

\* A deadline test that lets one more poll happen at the deadline itself.
AfterPoll_Late(status, t, deadline) ==
    IF status \in AUTHORIZED_CONSENT_STATUSES THEN "return"
    ELSE IF status \in FAILED_CONSENT_STATUSES THEN "raise"
    ELSE IF t > deadline THEN "timeout"
    ELSE "sleep"

\* The tests that follow a poll: return status, raise RuntimeError, raise
\* TimeoutError, or await asyncio.sleep(poll_interval_seconds).
AfterPoll(status, t, deadline) ==
    IF status \in AUTHORIZED_CONSENT_STATUSES THEN "return"
    ELSE IF status \in FAILED_CONSENT_STATUSES THEN "raise"
    ELSE IF t >= deadline THEN "timeout"
    ELSE "sleep"

\* deadline = loop.time() + timeout_seconds; the loop is entered.
WaitStart(timeout_seconds, poll_interval_seconds) ==
    /\ waitOp.pc \in {"idle", "return", "raise", "timeout"}
    /\ waitOp' = [pc |-> "poll", time |-> 0, deadline |-> timeout_seconds,
                  interval |-> poll_interval_seconds, polls |-> 0,
                  status |-> None]
    /\ UNCHANGED <<pageOp, normCall, job>>
    /\ UNCHANGED <<now, syncVars, consentVars, tokenVars, statusVars>>

\* consent_payload = await self.get_consent_details(consent_id), which
\* returns after `took`, and the tests on its status.
WaitPoll(took, payload) ==
    LET status == PolledStatus(payload)
        t == waitOp.time + took
    IN  /\ waitOp.pc = "poll"
        /\ waitOp' = [waitOp EXCEPT
                        !.time = t, !.polls = @ + 1, !.status = status,
                        !.pc = AfterPoll(status, t, waitOp.deadline)]
        /\ UNCHANGED <<pageOp, normCall, job>>
        /\ UNCHANGED <<now, syncVars, consentVars, tokenVars, statusVars>>

\* await asyncio.sleep(poll_interval_seconds) returns.
WaitSleep ==
    /\ waitOp.pc = "sleep"
    /\ waitOp' = [waitOp EXCEPT !.time = @ + waitOp.interval, !.pc = "poll"]
    /\ UNCHANGED <<pageOp, normCall, job>>
    /\ UNCHANGED <<now, syncVars, consentVars, tokenVars, statusVars>>

\* A poll or a sleep of the helper that has been started.
WaitStep ==
    \/ \E took \in 0..1 :
         \E d \in {None, "Approved", "Rejected", "AwaitingAuthorization"} :
           \E s \in {None, "Active", "Expired", "approved"} :
             WaitPoll(took, [data_status |-> d, status |-> s])
    \/ WaitSleep

NextWait ==
    \/ \E timeout \in 0..MaxTimeout, interval \in 1..2 : WaitStart(timeout, interval)
    \/ WaitStep

SpecWait == InitOneProcess /\ [][NextWait]_vars

\* Every status call returns and every sleep ends.
SpecWaitFair == SpecWait /\ WF_vars(WaitStep)

\* ------------------------------------------------- paginated retrieval
\* Pages of one listing are numbered 1..MaxPages; a next link is the number
\* of the page it points at, relative and absolute links alike (urljoin),
\* and 0 stands for an absent link.
\* One retrieval sends at most MaxRequests requests in the model.
MaxPages == 2
MaxRequests == 4

\* A response body without a next link.
LastPage == [links |-> 0, Links |-> 0, data_links |-> 0]

\* _extract_next_link: links.next or Links.next or data.links.next
ExtractNextLink(body) ==
    IF body.links # 0 THEN body.links
    ELSE IF body.Links # 0 THEN body.Links
    ELSE body.data_links

\* The loop of fetch_transactions_with_consent for one account, entered with
\* the URL of the first page, or _paginate, entered with the response that
\* holds the first page.
\*   url       next_page_url / next_url
\*   fetched   the pages requested so far, in order
PageStart(kind, first_body) ==
    LET next_url == IF kind = "transactions" THEN 1
                    ELSE ExtractNextLink(first_body)
    IN  /\ pageOp.pc \in {"idle", "done", "raise"}
        /\ pageOp' = [pc |-> IF next_url = 0 THEN "done" ELSE "loop",
                      kind |-> kind, url |-> next_url,
                      fetched |-> IF kind = "transactions" THEN <<>> ELSE <<1>>]
        /\ UNCHANGED <<waitOp, normCall, job>>
        /\ UNCHANGED <<now, syncVars, consentVars, tokenVars, statusVars>>

\* One turn of the while loop: GET next_url, then the next link of the body.
\* A failed page ends fetch_transactions_with_consent with the exception of
\* raise_for_status and ends _paginate with a break.
PageFetch(status, body) ==
    LET next_url == ExtractNextLink(body) IN
    /\ pageOp.pc = "loop"
    /\ Len(pageOp.fetched) < MaxRequests
    /\ pageOp' =
         IF status # "200"
         THEN [pageOp EXCEPT
                 !.fetched = Append(@, pageOp.url),
                 !.pc = IF pageOp.kind = "transactions" THEN "raise" ELSE "done"]
         ELSE [pageOp EXCEPT
                 !.fetched = Append(@, pageOp.url),
                 !.url = next_url,
                 !.pc = IF next_url = 0 THEN "done" ELSE "loop"]
    /\ UNCHANGED <<waitOp, normCall, job>>
    /\ UNCHANGED <<now, syncVars, consentVars, tokenVars, statusVars>>

NextPage ==
    \/ \E kind \in {"transactions", "paginate"} :
         \E p \in 0..MaxPages :
           PageStart(kind, [LastPage EXCEPT !.links = p])
    \/ \E status \in {"200", "500"} :
         \E p \in 0..MaxPages :
           \E field \in {"links", "Links", "data_links"} :
             PageFetch(status, [LastPage EXCEPT ![field] = p])

SpecPage == InitOneProcess /\ [][NextPage]_vars

\* --------------------------------------- the reading of a consent response
\* initiate_consent after raise_for_status: identifiers from under "data"
\* first, then from the top level; status = data.status or status;
\* auto_approved = auto_approved or data.autoApproved or an authorized
\* status, compared as it is spelled; ValueError without any identifier.
InitiateConsentResult(body) ==
    LET consent_id == Either(body.data_consentId, Either(body.data_consent_id,
                        Either(body.consentId, body.consent_id)))
        request_id == Either(body.data_requestId, Either(body.data_request_id,
                        Either(body.request_id, body.requestId)))
        status == Either(body.data_status, body.status)
        auto_approved == \/ body.auto_approved
                         \/ body.data_autoApproved
                         \/ status \in AUTHORIZED_CONSENT_STATUSES
    IN  IF consent_id = None /\ request_id = None
        THEN InitResult("raise", None, None, None, FALSE)
        ELSE InitResult("meta", consent_id, request_id, status, auto_approved)

\* initiate_product_consent on one answer below 400: request_id and
\* consent_id from the snake_case top-level field, then from under "data";
\* status = status or data.status; a body without request_id is skipped
\* (continue); auto_approved is a flag or an authorized status compared in
\* lower case; a missing status becomes "Approved" or "Pending".
InitiateProductConsentResult(body) ==
    LET request_id == Either(body.request_id, Either(body.data_requestId,
                        body.data_request_id))
        consent_id == Either(body.consent_id, Either(body.data_consentId,
                        body.data_consent_id))
        status_raw == Either(body.status, body.data_status)
        flagged == \/ body.auto_approved
                   \/ body.data_autoApproved
                   \/ body.data_auto_approved
        auto_approved == \/ flagged
                         \/ /\ status_raw # None
                            /\ LowerCase(status_raw) \in AuthorizedLower
        status_value == IF status_raw = None
                        THEN (IF auto_approved THEN "Approved" ELSE "Pending")
                        ELSE status_raw
    IN  IF request_id = None
        THEN InitResult("none", None, None, None, FALSE)
        ELSE InitResult("meta", consent_id, request_id, status_value, auto_approved)

\* One consent operation reads one body.
ReadConsentResponse(op, body) ==
    /\ normCall' = [op |-> op, body |-> body,
                    result |-> IF op = "initiate_consent"
                               THEN InitiateConsentResult(body)
                               ELSE InitiateProductConsentResult(body)]
    /\ UNCHANGED <<waitOp, pageOp, job>>
    /\ UNCHANGED <<now, syncVars, consentVars, tokenVars, statusVars>>

\* Bodies with one identifier or none, a status or none, and a flag or
\* none, all at the top level or all under "data".
NextNormalize ==
    \E op \in {"initiate_consent", "initiate_product_consent"} :
      \E id \in {"consentId", "consent_id", "requestId", "request_id"} :
        \E value \in {None, "c-1"}, status \in InitStatuses, flag \in BOOLEAN :
          \/ ReadConsentResponse(op,
               [EmptyBody EXCEPT ![id] = value, !.status = status,
                                 !.auto_approved = flag])
          \/ ReadConsentResponse(op,
               [EmptyBody EXCEPT !["data_" \o id] = value, !.data_status = status,
                                 !.data_autoApproved = flag])

SpecNormalize == InitOneProcess /\ [][NextNormalize]_vars

\* ------------------------------------- one background run, task by task
\* _run_sync_background of user u1 followed through the fetch-and-persist
\* tasks of its bank jobs.
\*   consents   bank_id of each row of accounts_consents, in order
\*   products   the banks of the rows of products_consents
\*   tasks      per bank job, the state of each fetch-and-persist task:
\*              "none"      not created (no product consent of the bank)
\*              "cached"    returned at once on a stored snapshot
\*              "fetching"  awaiting the bank
\*              "ok"        fetched and persisted
\*              "error"     the API call failed inside fetch_bank_*, which
\*                          returned status "error" and an empty list
\*              "raise"     persisting the fetched data raised
\*   results    what each _sync_single_bank has ended with, or "running"
\*   recorded   the status logged for each bank job
\*   cache0     bank_data_cache when the run started
DataTypes == {"accounts", "balances", "transactions", "products"}

\* The tasks _sync_single_bank creates and how far each gets before its
\* first await: the product task only with a product consent of the bank,
\* the return on a cached snapshot unless force.
SyncSingleBankTasks(cache, user_id, bank_id, products, force) ==
    [k \in DataTypes |->
        IF k = "products" /\ bank_id \notin products THEN "none"
        ELSE IF ~force /\ GetBankDataCache(cache, user_id, bank_id, k) # {}
             THEN "cached"
        ELSE "fetching"]

\* await asyncio.gather(*tasks) in _sync_single_bank: the first exception
\* of a task is raised at once, the other tasks are left running; without
\* an exception the job returns when every task has returned.
SyncSingleBankResult(tasks) ==
    IF \E k \in DataTypes : tasks[k] = "raise" THEN "raise"
    ELSE IF \E k \in DataTypes : tasks[k] = "fetching" THEN "running"
    ELSE "success"

\* The tasks of one bank job after task k has ended with outcome: gather
\* leaves its other tasks as they are.
GatherTasks(tasks, k, outcome) == [tasks EXCEPT ![k] = outcome]

\* _fetch_and_save_* after its await: result.get(..., []) is persisted
\* whatever result["status"] says; an exception of the save_* call leaves
\* the snapshot as it was.
PersistFetched(cache, user_id, bank_id, k, outcome, t) ==
    IF outcome \in {"ok", "error"}
    THEN SaveBankDataCache(cache, user_id, bank_id, k, t)
    ELSE cache

\* start_sync has acquired the lock; _run_sync_background reads the approved
\* consents, returns (and releases) without any, else creates one bank job
\* per account consent and awaits them.
RunStart(accounts_consents, products_consents, force) ==
    LET user_id == "u1"
        tasks == [i \in 1..Len(accounts_consents) |->
                    SyncSingleBankTasks(bank_data_cache, user_id,
                                        accounts_consents[i], products_consents,
                                        force)]
    IN  /\ job.pc = "idle"
        /\ job' = [pc |-> IF accounts_consents = <<>> THEN "released" ELSE "banks",
                   force |-> force, consents |-> accounts_consents,
                   products |-> products_consents, tasks |-> tasks,
                   results |-> [i \in 1..Len(accounts_consents) |->
                                  SyncSingleBankResult(tasks[i])],
                   recorded |-> <<>>, cache0 |-> bank_data_cache]
        /\ sync_locks' =
             IF accounts_consents = <<>>
             THEN ReleaseSyncLock(sync_locks, user_id)
             ELSE AcquireSyncLock(sync_locks, user_id, 1, now, SYNC_TTL).table
        /\ UNCHANGED <<now, dbWriter, dbPending, dashboard_cache, multi_process,
                       calls, lastCall>>
        /\ UNCHANGED <<waitOp, pageOp, normCall>>
        /\ UNCHANGED <<consentVars, tokenVars, statusVars>>

\* The await of one fetch-and-persist task ends and the task runs to its
\* end; the gather of its bank job sees the outcome.
TaskFinish(i, k, outcome) ==
    LET tasks == GatherTasks(job.tasks[i], k, outcome) IN
    /\ i \in 1..Len(job.tasks)
    /\ job.tasks[i][k] = "fetching"
    /\ bank_data_cache' = PersistFetched(bank_data_cache, "u1", job.consents[i],
                                         k, outcome, now)
    /\ job' = [job EXCEPT
                 !.tasks[i] = tasks,
                 !.results[i] = IF @ = "running"
                                THEN SyncSingleBankResult(tasks) ELSE @]
    /\ UNCHANGED <<now, statusCall>>
    /\ UNCHANGED <<waitOp, pageOp, normCall>>
    /\ UNCHANGED <<syncVars, consentVars, tokenVars>>

\* The outer gather has every bank job's result: the logging loop, the
\* invalidation of the dashboard cache and the release in finally.
RunFinish ==
    /\ job.pc = "banks"
    /\ \A i \in 1..Len(job.results) : job.results[i] # "running"
    /\ job' = [job EXCEPT
                 !.pc = "released",
                 !.recorded = [i \in 1..Len(job.results) |->
                                 JobRecord(job.results[i])]]
    /\ dashboard_cache' = InvalidateDashboardCache(dashboard_cache, "u1")
    /\ sync_locks' = ReleaseSyncLock(sync_locks, "u1")
    /\ UNCHANGED <<now, dbWriter, dbPending, multi_process, calls, lastCall>>
    /\ UNCHANGED <<waitOp, pageOp, normCall>>
    /\ UNCHANGED <<consentVars, tokenVars, statusVars>>

\* Snapshots stored by earlier runs, the clock, then one run.  Failures are
\* followed on the accounts and balances tasks of the first bank job.
NextBackground ==
    \/ /\ job.pc = "idle"
       /\ \E key \in {<<"vbank", "accounts">>, <<"vbank", "balances">>} :
            CacheSave("u1", key[1], key[2])
    \/ /\ job.pc = "idle"
       /\ Sleep(60)
    \/ \E l \in {<<>>, <<"vbank">>, <<"vbank", "vbank">>, <<"vbank", "abank">>} :
         \E p \in {{}, {"vbank"}}, force \in BOOLEAN : RunStart(l, p, force)
    \/ \E i \in 1..2, k \in DataTypes :
         \E outcome \in IF i = 1 /\ k \in {"accounts", "balances"}
                        THEN {"ok", "error", "raise"} ELSE {"ok"} :
           TaskFinish(i, k, outcome)
    \/ RunFinish

SpecBackground == InitOneProcess /\ [][NextBackground]_vars

\* ================================================================ claims
\* The instant a stored timestamp denotes.
IsoValue(text) == text[1] * 1000 + text[2] * 100 + text[3] * 10 + text[4]

\* Rows of a user that have not expired at instant t.
LiveRows(table, user_id, t) ==
    {r \in table : r.user_id = user_id /\ IsoValue(r.expires_at) > t}

RowsOf(table, user_id) == {r \in table : r.user_id = user_id}

\* C2 - Lock exclusivity: after any sequence of acquire / release calls and
\* time steps every user has at most one non-expired lock row, and an
\* acquire issued while a non-expired lock of the user exists returns false
\* and leaves the table as it was.
C2_LockExclusivity ==
    /\ \A u \in Users : Cardinality(LiveRows(sync_locks, u, now)) <= 1
    /\ (/\ lastCall.op = "acquire"
        /\ LiveRows(lastCall.before, lastCall.user_id, lastCall.at) # {})
       => (lastCall.result = 0 /\ sync_locks = lastCall.before)

C2_Witness ==
    /\ lastCall.op = "acquire"
    /\ lastCall.result = 0
    /\ \E r \in sync_locks :
          r.user_id = lastCall.user_id /\ r.sync_id # lastCall.sync_id

\* C4 - Lock self-healing: a lock whose expires_at is not in the future is
\* treated as absent without any release: get_sync_lock reports no lock,
\* and acquire_sync_lock succeeds and leaves the caller's row as the only
\* row of the user.
C4_LockSelfHealing ==
    /\ (/\ lastCall.op = "get"
        /\ LiveRows(lastCall.before, lastCall.user_id, lastCall.at) = {})
       => lastCall.result = 0
    /\ (/\ lastCall.op = "acquire"
        /\ LiveRows(lastCall.before, lastCall.user_id, lastCall.at) = {})
       => /\ lastCall.result = 1
          /\ RowsOf(sync_locks, lastCall.user_id) =
                {[user_id |-> lastCall.user_id, sync_id |-> lastCall.sync_id,
                  locked_at |-> IsoFormat(lastCall.at),
                  expires_at |-> IsoFormat(lastCall.at + lastCall.ttl)]}

\* acquire(u1, s1, 60) at 0, then 61 seconds later an acquire of another
\* sync replaces the expired row, which nobody released.
C4_Witness ==
    /\ lastCall.op = "acquire"
    /\ lastCall.result = 1
    /\ lastCall.at = 61
    /\ \E r \in lastCall.before :
          /\ r.user_id = lastCall.user_id
          /\ r.sync_id # lastCall.sync_id
          /\ r.locked_at = IsoFormat(0)
          /\ r.expires_at = IsoFormat(TEST_TTL)

\* ------------------------------------------------------------ coordinator
\* A run that is doing per-bank fetch-and-persist work.
Executing(c) ==
    /\ calls[c].pc \in {"job_banks", "r_banks"}
    /\ ~AllFinished(calls[c].results)

\* C1 - For every user at most one sync run (background job or full
\* refresh) is executing per-bank work at any instant, also when a run
\* lasts longer than the lock TTL.
C1_AtMostOneSyncRun ==
    \A c, d \in Calls :
        (c # d /\ calls[c].user_id = calls[d].user_id)
            => ~(Executing(c) /\ Executing(d))

\* C3 - acquire_sync_lock is an atomic insert-if-absent-or-expired: of two
\* acquire calls for one user whose statements interleave, at most one
\* returns true.
C3_AtomicAcquire ==
    \A c, d \in Calls :
        (c # d /\ d \in calls[c].rivals)
            => ~(calls[c].pc = "acquired" /\ calls[d].pc = "acquired")

\* C5 - StartSync fails with 409 whenever a non-expired lock of the user
\* exists, leaving the lock as it is and launching no job; otherwise it
\* creates a lock with TTL 300 s, launches one job and returns queued with
\* the sync_id stored in the lock row.
C5_StartSyncContract ==
    [][\A c \in Calls :
         (calls'[c].kind = "start" /\ calls[c].ret = "none" /\ calls'[c].ret # "none")
         => \/ /\ calls'[c].ret = "409"
               /\ calls'[c].pc = "done"
               /\ sync_locks' = sync_locks
               /\ LiveRows(sync_locks, calls[c].user_id, now) # {}
            \/ /\ calls'[c].ret = "queued"
               /\ calls'[c].pc = "job_start"
               /\ \E r \in sync_locks' :
                     /\ r.user_id = calls[c].user_id
                     /\ r.sync_id = c
                     /\ IsoValue(r.expires_at) = IsoValue(r.locked_at) + SYNC_TTL
      ]_vars

\* C7 - RunFullRefresh always releases the lock before returning: once a
\* call that acquired the lock has returned or raised, no lock row carries
\* its sync_id.
C7_RefreshAlwaysReleases ==
    \A c \in Calls :
        (calls[c].kind = "refresh" /\ calls[c].pc = "done" /\ calls[c].ret # "409")
            => ~\E r \in sync_locks : r.sync_id = c

\* C8 - A crashed or hung holder cannot block a user forever: a StartSync
\* that begins once every lock row of the user is past its expires_at goes
\* on to acquire; an acquire that finds no live row deletes, inserts its
\* own row and commits it; and the call then returns queued.
C8_StartAfterExpiry ==
    [][\A c \in Calls :
         /\ (/\ calls[c].pc = "free" /\ calls'[c].kind = "start"
             /\ LiveRows(sync_locks, calls'[c].user_id, now) = {})
            => calls'[c].pc = "acquire"
         /\ (/\ calls[c].pc = "acquire" /\ calls'[c].pc # "acquire"
             /\ LiveRows(sync_locks, calls[c].user_id, now) = {})
            => calls'[c].pc = "acq_delete"
         /\ (calls[c].pc = "acq_delete" /\ calls'[c].pc # "acq_delete")
            => calls'[c].pc = "acq_insert"
         /\ (calls[c].pc = "acq_insert" /\ calls'[c].pc # "acq_insert")
            => calls'[c].pc = "acq_commit"
         /\ (calls[c].pc = "acq_commit" /\ calls'[c].pc # "acq_commit")
            => /\ calls'[c].pc = "acquired"
               /\ \E r \in sync_locks' : r.user_id = calls[c].user_id /\ r.sync_id = c
         /\ (/\ calls[c].pc = "acquired" /\ calls[c].kind = "start"
             /\ calls'[c].pc # "acquired")
            => calls'[c].ret = "queued"
      ]_vars

\* A holder that never released (hung in its bank jobs, or a refresh that
\* returned without releasing) and a later StartSync that holds the lock.
C8_Witness ==
    \E c, d \in Calls :
        /\ c # d
        /\ calls[d].user_id = calls[c].user_id
        /\ \/ calls[d].pc \in {"job_banks", "r_banks"}
           \/ calls[d].pc = "done" /\ calls[d].ret = "424"
        /\ calls[c].kind = "start"
        /\ calls[c].ret = "queued"
        /\ \E r \in sync_locks :
              /\ r.sync_id = c
              /\ IsoValue(r.locked_at) >= SYNC_TTL

\* C9 - Partial-bank isolation: when a bank's job raises, every other bank
\* is still run and recorded by its own outcome, the failing bank is
\* recorded as failed (background job) or error (full refresh), and the
\* exception of a bank never reaches the except clause of the job nor the
\* caller of the refresh.
C9_PartialBankIsolation ==
    \A c \in Calls :
        /\ (calls[c].kind = "start" /\ calls[c].pc = "job_invalidate")
           => /\ Len(calls[c].recorded) = Len(calls[c].consents)
              /\ \A i \in 1..Len(calls[c].consents) :
                    calls[c].recorded[i] =
                        IF calls[c].results[i] = "raise" THEN "failed" ELSE "success"
        /\ (calls[c].kind = "refresh" /\ calls[c].pc \in {"r_invalidate", "r_dashboard"})
           => /\ Len(calls[c].recorded) = Len(calls[c].consents)
              /\ \A i \in 1..Len(calls[c].consents) :
                    calls[c].recorded[i] =
                        IF calls[c].results[i] = "raise" THEN "error" ELSE "success"
        /\ (calls[c].kind = "refresh" /\ calls[c].pc = "r_release")
           => /\ AllFinished(calls[c].results)
              /\ Len(calls[c].recorded) = Len(calls[c].consents)
        /\ (calls[c].kind = "start" /\ calls[c].pc \in {"job_invalidate", "job_release"}
              /\ ~calls[c].exc)
           => AllFinished(calls[c].results)

\* A background job that recorded one bank as failed and another as success.
C9_Witness ==
    \E c \in Calls :
        /\ calls[c].kind = "start"
        /\ calls[c].pc = "job_invalidate"
        /\ \E i, j \in 1..Len(calls[c].recorded) :
              /\ calls[c].results[i] = "raise" /\ calls[c].recorded[i] = "failed"
              /\ calls[c].results[j] = "success" /\ calls[c].recorded[j] = "success"

\* The release step of a background job.
JobReleases(c) ==
    calls[c].kind = "start" /\ calls[c].pc = "job_release" /\ calls'[c].pc = "done"

C6_JobReleasesLock ==
    [](calls[1].pc = "job_start"
         => <>[](calls[1].pc = "done" /\ ~\E r \in sync_locks : r.sync_id = 1))

\* A job that went through its except clause and is about to release.
C6_Witness ==
    /\ calls[1].kind = "start"
    /\ calls[1].pc = "job_release"
    /\ calls[1].exc
    /\ \E r \in sync_locks : r.sync_id = 1

\* ------------------------------------------------------ consent claims
\* The failing outcomes of an initiation: an HTTPException was raised, or
\* the payload has state "error".
InitiationFailed(out) == out.ret # "return" \/ out.state = "error"

\* The row of a table with a given AUTOINCREMENT id.
RowsWithId(table, id) == {r \in table : r.id = id}

\* The rows a request_id lookup selects.
RowsOfRequest(table, request_id) == {r \in table : r.request_id = request_id}

PairStep ==
    /\ batch.pc = "pair"
    /\ batch.types # <<>>
    /\ batch'.pc = "pair"
    /\ Len(batch'.types) = Len(batch.types) - 1
    /\ batch'.last.consent_type = Head(batch.types)

\* What overall_status has to be for the statuses of the pairs in the result
ExpectedOverall(statuses) ==
    LET errored == "error" \in statuses
        pending == statuses \cap {"pending", "creating"} # {}
    IN  IF errored /\ ~pending THEN "error"
        ELSE IF errored /\ pending THEN "partial"
        ELSE IF pending THEN "in_progress"
        ELSE "completed"

C13_BatchNeverAborts ==
    batch.pc \in {"done", "aborted"}
      => /\ batch.pc = "done"
         /\ batch.ret = "return"
         /\ batch.results = batch.requested
         /\ batch.complete

\* ------------------------------------------------------------ bank tokens
\* The caller left _get_bank_token with the cached token / went on to
\* request a new one / saw the fetched token fail validation.
ServedFromCache(c) == callers[c].pc = "enter" /\ callers'[c].pc = "request"

WentToFetch(c) == callers[c].pc = "enter" /\ callers'[c].pc = "fetch"

ValidationFailed(c) == callers[c].pc = "validate" /\ callers'[c].pc = "done"

SecondsLeft(token, t) == token.exp - t

\* What the claims range over: lifetimes around the margin, and a token
\* of every kind _validate_jwt tells apart
TokenLifetimes == {30, 61, 62, 120}

Tokens(t) ==
    [exp : {t + 120},
     kind : {"rsa", "badsig", "nokid", "unknownkid", "garbage", "hs"}]

BankTokenRow(bank_id, expires_at) ==
    [bank_id |-> bank_id, access_token |-> "t", expires_at |-> expires_at]

\* C21 - Token expiry margin: the token cache hands a token out only while
\* more than 60 s of its lifetime remain, and then without a request to the
\* bank; with 60 s or less left the caller goes on to fetch.  The same holds
\* for get_cached_bank_token over the bank_tokens table: a token with 30 s
\* left is never returned, one with 120 s left is.
C21_ExpiryMargin ==
    [][/\ \A c \in TokenCallers :
            /\ ServedFromCache(c)
                 => /\ SecondsLeft(callers'[c].token, now) > TOKEN_MARGIN
                    /\ callers'[c].token = client.bank_token
                    /\ callers'[c].token_requests = callers[c].token_requests
                    /\ client' = client
            /\ WentToFetch(c)
                 => \/ client.bank_token = NoToken
                    \/ SecondsLeft(client.bank_token, now) <= TOKEN_MARGIN
       /\ \A l \in TokenLifetimes : \A d \in 0..1 :
            LET token == [exp |-> now + l, kind |-> "rsa"]
            IN  CachedToken(StoreToken(client, token), now + d)
                  = IF l - d > TOKEN_MARGIN THEN token ELSE NoToken
       /\ \A l \in TokenLifetimes \cup {TOKEN_MARGIN} :
            LET row == BankTokenRow("vbank", now + l)
            IN  GetCachedBankToken({row}, "vbank", now)
                  = IF l > TOKEN_MARGIN THEN {row} ELSE {}
      ]_vars

\* A caller was handed, without a token request of its own, a cached token
\* that another caller had fetched; the token had 61 s left.
C21_Witness ==
    /\ served.from_cache
    /\ SecondsLeft(served.token, served.at) = TOKEN_MARGIN + 1
    /\ callers[served.caller].pc = "request"
    /\ callers[served.caller].token_requests = 0
    /\ \E c \in TokenCallers : c # served.caller /\ callers[c].token_requests = 1

\* C22 - No token is handed to a caller with 60 s or less of its lifetime
\* left, whether it came from the cache or was just fetched from the bank.
C22_NoTokenNearExpiry ==
    served.token # NoToken => SecondsLeft(served.token, served.at) > TOKEN_MARGIN

\* C23 - A fetched token that fails validation (bad RSA signature, missing
\* or unknown kid, not decodable) makes the acquisition fail: the cached
\* token and its expiry stay as they were, nothing is handed out, and a token
\* of such a kind is never cached or handed out later.
C23_ValidationFailure ==
    [][/\ \A c \in TokenCallers :
            /\ ValidationFailed(c)
                 => /\ client'.bank_token = client.bank_token
                    /\ client'.token_expires_at = client.token_expires_at
                    /\ callers'[c].ret = "raise"
                    /\ callers'[c].token = NoToken
                    /\ served' = served
            /\ (/\ callers[c].pc = "validate"
                /\ callers'[c] # callers[c]
                /\ callers[c].token.kind \in {"badsig", "nokid", "unknownkid", "garbage"})
                 => ValidationFailed(c)
       /\ \A token \in Tokens(now) : \A jwks_ok \in BOOLEAN :
            /\ token.kind \in {"badsig", "nokid", "unknownkid", "garbage"}
                 => ~ValidateJwt(token, jwks_ok)
            /\ ~ValidateJwt(token, jwks_ok)
                 => /\ RejectToken(client, token).bank_token = client.bank_token
                    /\ RejectToken(client, token).token_expires_at
                         = client.token_expires_at
       /\ client'.bank_token.kind \in {"none", "rsa", "hs"}
       /\ served'.token.kind \in {"none", "rsa", "hs"}
      ]_vars

\* An acquisition failed on a token with a bad signature while the client
\* held an earlier token, which it still holds.
C23_Witness ==
    \E c \in TokenCallers :
        /\ callers[c].pc = "done"
        /\ callers[c].ret = "raise"
        /\ callers[c].token_requests >= 1
        /\ callers[c].requests = 0
        /\ client.bank_token.kind = "rsa"
        /\ client.lock = 0

\* C24 - After the bank answered an authenticated request with 401, the
\* next operation on the client does not reuse the token that request
\* carried: it fetches a new one.
C24_DiscardedOn401 ==
    [][\A c \in TokenCallers :
         (/\ answered.status = "401"
          /\ answered.caller = c
          /\ ServedFromCache(c))
           => callers'[c].token # answered.token
      ]_vars

\* The callers inside the section of _get_bank_token that fetches and
\* validates
InSection(cs) == {c \in TokenCallers : cs[c].pc \in {"fetch", "validate"}}

\* C25 - Token fetch and validation are serialized per client: at most one
\* caller is fetching or validating, a caller that gets in while the token
\* fetched by another still has more than 60 s left leaves with that token,
\* and it has made no token request.
C25_TokenSerialized ==
    [][/\ Cardinality(InSection(callers')) <= 1
       /\ \A c \in InSection(callers') : client'.lock = c
       /\ \A c \in TokenCallers :
            /\ (/\ callers[c].pc = "enter"
                /\ callers'[c] # callers[c]
                /\ client.bank_token # NoToken
                /\ SecondsLeft(client.bank_token, now) > TOKEN_MARGIN)
                 => /\ ServedFromCache(c)
                    /\ callers'[c].token = client.bank_token
                    /\ callers'[c].token_requests = 0
            /\ callers[c].pc = "enter" /\ callers'[c] # callers[c]
                 => InSection(callers) = {}
      ]_vars

\* Both callers hold the same token and one token request was made.
C25_Witness ==
    /\ callers[1].pc = "request"
    /\ callers[2].pc = "request"
    /\ callers[1].token = callers[2].token
    /\ callers[1].token # NoToken
    /\ callers[1].token_requests + callers[2].token_requests = 1

\* C26 - Retry bound: within one operation no request is sent more than 3
\* times, the token request of an operation that is itself retried included.
C26_RetryBound ==
    \A c \in TokenCallers :
        /\ callers[c].token_requests <= RETRY_ATTEMPTS
        /\ callers[c].requests <= RETRY_ATTEMPTS

\* C27 - After an answer with a 4xx status, or one without the identifiers
\* the protocol requires, the operation sends no further request to the
\* bank.
C27_NoRetryAfter4xx ==
    [][(/\ loopOp.pc = "loop"
        /\ loopOp.last \in {"404", "429", "noid"})
         => loopOp'.sent = loopOp.sent
      ]_vars

\* -------------------------------------------------------------- sync status
\* The user's snapshots, and the latest fetched_at among rows (None for no
\* row).
SnapshotsOf(cache, user_id) == {r \in cache : r.user_id = user_id}

LastFetched(rows) ==
    IF rows = {} THEN NoStamp
    ELSE (CHOOSE r \in rows :
            \A q \in rows : IsoValue(q.fetched_at) <= IsoValue(r.fetched_at)).fetched_at

\* What the claim expects of a status response given the user's live rows
StatusMatchesLock(response, live) ==
    /\ response.status = (IF live # {} THEN "running" ELSE "completed")
    /\ live # {}
         => \E r \in live : /\ response.sync_id = r.sync_id
                            /\ response.locked_at = r.locked_at
                            /\ response.expires_at = r.expires_at

\* C28 - GetSyncStatus answers running, with the lock's sync_id, locked_at
\* and expires_at, exactly when the user has a lock that has not expired;
\* otherwise it answers completed.
C28_StatusFollowsLock ==
    [][/\ statusCall' # statusCall
            => StatusMatchesLock(statusCall'.response,
                                 LiveRows(sync_locks, statusCall'.user_id, now))
       /\ \A u \in Users :
            StatusMatchesLock(GetSyncStatus(sync_locks, bank_data_cache, u, now),
                              LiveRows(sync_locks, u, now))
      ]_vars

\* The status was asked for after the user's lock had expired, its row
\* still in the table: the answer was completed.
C28_Witness ==
    /\ statusCall.at = now
    /\ statusCall.response.status = "completed"
    /\ RowsOf(sync_locks, statusCall.user_id) # {}
    /\ LiveRows(sync_locks, statusCall.user_id, now) = {}

\* C29 - With no lock, synced_at is the latest fetch timestamp among the
\* user's cached snapshots of any bank and any data type (null only when
\* the user has none).
C29_SyncedAtIsLastFetch ==
    \A u \in Users :
        LiveRows(sync_locks, u, now) = {}
          => GetSyncStatus(sync_locks, bank_data_cache, u, now).synced_at
               = LastFetched(SnapshotsOf(bank_data_cache, u))

\* C30 - Locks of different users are independent: acquiring or releasing
\* the lock of one user leaves the rows of every other user as they were,
\* and what an acquire or a lookup answers for a user depends on that user's
\* rows alone.
C30_UsersIndependent ==
    /\ lastCall.op \in {"acquire", "release"}
         => \A v \in Users \ {lastCall.user_id} :
              RowsOf(sync_locks, v) = RowsOf(lastCall.before, v)
    /\ lastCall.op = "acquire"
         => (lastCall.result = 1
               <=> LiveRows(lastCall.before, lastCall.user_id, lastCall.at) = {})
    /\ \A u \in Users : \A v \in Users \ {u} :
         /\ RowsOf(ReleaseSyncLock(sync_locks, u), v) = RowsOf(sync_locks, v)
         /\ GetSyncLock(sync_locks, u, now) = GetSyncLock(RowsOf(sync_locks, u), u, now)
         /\ \A s \in SyncIds : \A ttl \in Ttls :
              LET all == AcquireSyncLock(sync_locks, u, s, now, ttl)
                  own == AcquireSyncLock(RowsOf(sync_locks, u), u, s, now, ttl)
              IN  /\ all.ok = own.ok
                  /\ RowsOf(all.table, u) = own.table
                  /\ RowsOf(all.table, v) = RowsOf(sync_locks, v)

\* A user acquired the lock while the other user held a live one: both
\* locks are live, each with its own sync_id.
C30_Witness ==
    /\ lastCall.op = "acquire"
    /\ lastCall.result = 1
    /\ \E v \in Users \ {lastCall.user_id} :
         /\ LiveRows(lastCall.before, v, lastCall.at) # {}
         /\ LiveRows(sync_locks, v, now) # {}
         /\ FetchSyncId(GetSyncLock(sync_locks, v, now))
              # FetchSyncId(GetSyncLock(sync_locks, lastCall.user_id, now))
    /\ FetchSyncId(GetSyncLock(sync_locks, lastCall.user_id, now)) = lastCall.sync_id

\* C31 - A rejected acquire_sync_lock changes nothing: the table is as it
\* was, so the holder's row keeps its sync_id, locked_at and expires_at; and
\* after release_sync_lock(u) the user has no row, is not locked, and an
\* acquire for u succeeds whatever its sync_id and ttl.
C31_RejectedAcquireAndRelease ==
    /\ (lastCall.op = "acquire" /\ lastCall.result = 0)
         => /\ sync_locks = lastCall.before
            /\ \A r \in LiveRows(lastCall.before, lastCall.user_id, lastCall.at) :
                 r \in sync_locks
    /\ lastCall.op = "release"
         => /\ RowsOf(sync_locks, lastCall.user_id) = {}
            /\ ~IsSyncLocked(sync_locks, lastCall.user_id, now)
            /\ \A s \in SyncIds : \A ttl \in Ttls :
                 LET a == AcquireSyncLock(sync_locks, lastCall.user_id, s, now, ttl)
                 IN  /\ a.ok
                     /\ FetchSyncId(GetSyncLock(a.table, lastCall.user_id, now)) = s
    /\ (lastCall.op = "acquire" /\ RowsOf(lastCall.before, lastCall.user_id) = {})
         => lastCall.result = 1

\* An acquire with another sync_id was rejected while the holder's lock was
\* live; the holder's row is still there.
C31_Witness ==
    /\ lastCall.op = "acquire"
    /\ lastCall.result = 0
    /\ \E r \in LiveRows(sync_locks, lastCall.user_id, now) :
         /\ r.sync_id # lastCall.sync_id
         /\ r \in lastCall.before

\* C39 - One call of initiate_single_payment sends no further payment
\* request after the first answer with a status below 400, whether or not
\* that answer carries a payment id.
C39_OnePaymentAccepted ==
    [][(/\ loopOp.kind = "single_payment"
        /\ loopOp.last \in {"ok", "noid"})
         => loopOp'.kind # "single_payment" \/ loopOp'.sent <= loopOp.sent
      ]_vars

\* C36 - A sync run only releases its own lock: the release step of a run
\* removes a row of sync_locks only if that row carries the run's sync_id.
C36_ReleasesOwnLock ==
    [][\A c \in Calls :
         (calls[c].pc \in {"job_release", "r_release"} /\ calls'[c].pc = "done")
            => \A r \in sync_locks \ sync_locks' : r.sync_id = c
      ]_vars

\* The ways wait_for_consent_authorization ends.
WaitEnded == waitOp.pc \in {"return", "raise", "timeout"}

\* C35 - The bounded wait helper terminates when each status call returns:
\* it returns as soon as a poll shows an authorized status, raises as soon
\* as a poll shows a failed status, and otherwise raises the timeout error
\* at the first poll completed at or after the deadline; it polls at least
\* once and never polls again after a terminal status.
C35_BoundedWait ==
    /\ [](/\ waitOp.pc = "return"
             => waitOp.status \in AUTHORIZED_CONSENT_STATUSES
          /\ waitOp.pc = "raise"
             => waitOp.status \in FAILED_CONSENT_STATUSES
          /\ waitOp.pc = "timeout"
             => /\ waitOp.status \notin AUTHORIZED_CONSENT_STATUSES
                                        \cup FAILED_CONSENT_STATUSES
                /\ waitOp.time >= waitOp.deadline
          /\ waitOp.pc = "sleep"
             => /\ waitOp.status \notin AUTHORIZED_CONSENT_STATUSES
                                        \cup FAILED_CONSENT_STATUSES
                /\ waitOp.time < waitOp.deadline
          /\ WaitEnded => waitOp.polls >= 1)
    /\ [][WaitEnded => waitOp'.polls = 0 /\ waitOp'.pc = "poll"]_waitOp
    /\ (waitOp.pc \in {"poll", "sleep"} ~> WaitEnded)

\* The helper slept at least once and raised the timeout error at the poll
\* that completed exactly at its deadline.
C35_Witness ==
    /\ waitOp.pc = "timeout"
    /\ waitOp.polls >= 2
    /\ waitOp.time = waitOp.deadline

\* The number of requests a retrieval has sent for page p.
RequestsOf(p) ==
    Cardinality({i \in 1..Len(pageOp.fetched) : pageOp.fetched[i] = p})

\* C40 - Paginated retrieval terminates for every sequence of bank
\* responses: fetch_transactions_with_consent and _paginate request each
\* page at most once, also when the bank keeps returning a next link or
\* returns one that points at a page already fetched.
C40_EachPageOnce ==
    \A p \in 1..MaxPages : RequestsOf(p) <= 1

\* The identifier a body carries in any of its consent-id fields, and in any
\* of its request-id fields.
BodyConsentId(body) ==
    Either(body.data_consentId, Either(body.data_consent_id,
      Either(body.consentId, body.consent_id)))

BodyRequestId(body) ==
    Either(body.data_requestId, Either(body.data_request_id,
      Either(body.requestId, body.request_id)))

\* C32 - Consent-response normalization: a response whose status is an
\* authorized spelling yields autoApproved true even without an explicit
\* flag, and identifiers nested under data are read like top-level ones;
\* {"data":{"consentId":"c-1","status":"Approved"}} normalizes to consentId
\* c-1, status Approved, autoApproved true.
C32_Normalization ==
    LET body == normCall.body
        result == normCall.result
        status == Either(body.data_status, body.status)
    IN  (normCall.op # None
         /\ (BodyConsentId(body) # None \/ BodyRequestId(body) # None))
          => /\ result.kind = "meta"
             /\ status \in AUTHORIZED_CONSENT_STATUSES => result.auto_approved
             /\ body.data_consentId # None => result.consent_id = body.data_consentId
             /\ body.data_requestId # None => result.request_id = body.data_requestId
             /\ body = [EmptyBody EXCEPT !.data_consentId = "c-1",
                                         !.data_status = "Approved"]
                  => result = InitResult("meta", "c-1", None, "Approved", TRUE)

\* The bank jobs of the run that is followed.
BankJobs == 1..Len(job.consents)

C34_OneJobPerBank ==
    /\ \A i, j \in BankJobs : job.consents[i] = job.consents[j] => i = j
    /\ \A i \in BankJobs :
         job.tasks[i]["products"] # "none" => job.consents[i] \in job.products

====
